---- MODULE Spec2Model ----
(***************************************************************************)
(* Coordinate transformations (rust/src/transforms), the transformation    *)
(* graph (rust/src/graph.rs) and their call shapes.                        *)
(*                                                                         *)
(* Coordinates are integers (Scale factors are fractions num/den applied   *)
(* with integer division); dimension indices keep the source's 0-based     *)
(* values and are shifted by one when a TLA+ sequence is indexed.          *)
(***************************************************************************)
EXTENDS Integers, Sequences, FiniteSets, TLC

\* ------------------------------------------------------------------------
\* Values
\* ------------------------------------------------------------------------

\* f64::NAN, the fill value of every scratch buffer
NAN == -999

\* Option<T>
None == [some |-> FALSE]
Some(x) == [some |-> TRUE, val |-> x]

\* the outcome of a call that panicked, and of one that returned
Panic == [ok |-> FALSE]
Done(x) == [ok |-> TRUE, val |-> x]

Min(a, b) == IF a <= b THEN a ELSE b
Max(a, b) == IF a >= b THEN a ELSE b

\* vec![val; n]
Fill(n, val) == [i \in 1..n |-> val]

\* vec_of_vec(outer_len, inner_len, val)
vec_of_vec(outer_len, inner_len, val) == Fill(outer_len, Fill(inner_len, val))

\* buf[..k] = prefix: a write through the slice &mut buf[..k]
WritePrefix(buf, k, prefix) ==
    [i \in 1..Len(buf) |-> IF i <= k THEN prefix[i] ELSE buf[i]]

\* ------------------------------------------------------------------------
\* Matrix (row-major [data, nrows, ncols])
\* ------------------------------------------------------------------------

Matrix(data, ncols) == [data |-> data, nrows |-> Len(data) \div ncols, ncols |-> ncols]

RECURSIVE MatmulLoop(_, _, _, _)
MatmulLoop(M, coord, buf, idx) ==
    IF idx >= Len(M.data) THEN buf
    ELSE LET r == idx \div M.ncols
             c == idx % M.ncols
         IN MatmulLoop(M, coord,
                [buf EXCEPT ![r + 1] = @ + M.data[idx + 1] * coord[c + 1]], idx + 1)

\* Matrix::matmul_into
matmul_into(M, coord, buf) == MatmulLoop(M, coord, Fill(Len(buf), 0), 0)

\* one output column of Matrix::matmul_transposed_into: mat_row zipped with coord_cols
RECURSIVE MatRowTimesCols(_, _, _, _)
MatRowTimesCols(mat_row, coord_cols, buf_col, k) ==
    IF k > Min(Len(mat_row), Len(coord_cols)) THEN buf_col
    ELSE MatRowTimesCols(mat_row, coord_cols,
            [i \in 1..Len(buf_col) |->
                IF i <= Len(coord_cols[k]) THEN buf_col[i] + coord_cols[k][i] * mat_row[k]
                ELSE buf_col[i]],
            k + 1)

\* Matrix::matmul_transposed_into
matmul_transposed_into(M, coord_cols, buf) ==
    [r \in 1..Len(buf) |->
        IF r <= M.nrows
        THEN MatRowTimesCols(SubSeq(M.data, (r - 1) * M.ncols + 1, r * M.ncols),
                             coord_cols, Fill(Len(buf[r]), 0), 1)
        ELSE buf[r]]

\* an identity test that does not look at the shape
MatrixIsIdentityAnyShape(M) ==
    \A idx \in 0..(Len(M.data) - 1) :
        LET row_idx == idx \div M.ncols
            col_idx == idx % M.ncols
        IN IF row_idx = col_idx THEN M.data[idx + 1] = 1 ELSE M.data[idx + 1] = 0

\* Matrix::is_identity
MatrixIsIdentity(M) ==
    /\ M.ncols = M.nrows
    /\ \A idx \in 0..(Len(M.data) - 1) :
          LET row_idx == idx \div M.ncols
              col_idx == idx % M.ncols
          IN IF row_idx = col_idx THEN M.data[idx + 1] = 1 ELSE M.data[idx + 1] = 0

\* Matrix::transpose (chunks of nrows, as the source has it)
MatrixTranspose(M) ==
    [data |-> [k \in 1..Len(M.data) |->
                  LET j == CHOOSE j \in 0..(Len(M.data) - 1) :
                              ((j % M.nrows) * M.nrows + (j \div M.nrows)) = k - 1
                  IN M.data[j + 1]],
     nrows |-> M.ncols, ncols |-> M.nrows]

\* ------------------------------------------------------------------------
\* Transformation values
\* ------------------------------------------------------------------------

Identity(n) == [type |-> "Identity", n |-> n]
Translate(v) == [type |-> "Translate", v |-> v]
\* Scale(s) with s[i] = num[i] / den[i]
Scale(num, den) == [type |-> "Scale", num |-> num, den |-> den]
MapAxis(map) == [type |-> "MapAxis", map |-> map]
Affine(unaugmented, translation) ==
    [type |-> "Affine", unaugmented |-> unaugmented, translation |-> translation]
Rotation(matrix) == [type |-> "Rotation", matrix |-> matrix]
Bijection(forward, reverse) == [type |-> "Bijection", forward |-> forward, reverse |-> reverse]
SubTransform(transform, in_dims, out_dims) ==
    [transform |-> transform, in_dims |-> in_dims, out_dims |-> out_dims]
ByDimension(subs) == [type |-> "ByDimension", subs |-> subs]

RECURSIVE SumLens(_, _)
SumLens(subs, f) ==
    IF subs = <<>> THEN 0
    ELSE Len(IF f = "in" THEN Head(subs).in_dims ELSE Head(subs).out_dims)
         + SumLens(Tail(subs), f)

RECURSIVE input_ndim(_)
input_ndim(t) ==
    CASE t.type = "Identity" -> t.n
      [] t.type = "Translate" -> Len(t.v)
      [] t.type = "Scale" -> Len(t.num)
      [] t.type = "MapAxis" -> Len(t.map)
      [] t.type = "Affine" -> t.unaugmented.ncols
      [] t.type = "Rotation" -> t.matrix.ncols
      [] t.type = "Bijection" -> input_ndim(t.forward)
      [] t.type = "Sequence" -> input_ndim(t.transforms[1])
      [] t.type = "ByDimension" -> SumLens(t.subs, "in")

RECURSIVE output_ndim(_)
output_ndim(t) ==
    CASE t.type = "Identity" -> t.n
      [] t.type = "Translate" -> Len(t.v)
      [] t.type = "Scale" -> Len(t.num)
      [] t.type = "MapAxis" -> Len(t.map)
      [] t.type = "Affine" -> t.unaugmented.nrows
      [] t.type = "Rotation" -> t.matrix.nrows
      [] t.type = "Bijection" -> output_ndim(t.forward)
      [] t.type = "Sequence" -> output_ndim(t.transforms[Len(t.transforms)])
      [] t.type = "ByDimension" -> SumLens(t.subs, "out")

\* (by_dimension.rs implements no is_identity: a ByDimension has no case here)
RECURSIVE is_identity(_)
is_identity(t) ==
    CASE t.type = "Identity" -> TRUE
      [] t.type = "Translate" -> \A i \in 1..Len(t.v) : t.v[i] = 0
      [] t.type = "Scale" -> \A i \in 1..Len(t.num) : t.num[i] = t.den[i]
      [] t.type = "MapAxis" -> \A i \in 1..Len(t.map) : t.map[i] = i - 1
      [] t.type = "Affine" ->
            /\ ~(\E i \in 1..Len(t.translation) : t.translation[i] # 0)
            /\ MatrixIsIdentity(t.unaugmented)
      [] t.type = "Rotation" -> MatrixIsIdentity(t.matrix)
      [] t.type = "Bijection" -> is_identity(t.forward) /\ is_identity(t.reverse)
      [] t.type = "Sequence" -> \A i \in 1..Len(t.transforms) : is_identity(t.transforms[i])

\* Sequence::try_new
RECURSIVE MaxInputNdim(_)
MaxInputNdim(ts) ==
    IF Len(ts) = 1 THEN input_ndim(ts[1])
    ELSE Max(input_ndim(ts[1]), MaxInputNdim(Tail(ts)))

SequenceTryNew(transforms) ==
    IF Len(transforms) < 2 THEN None
    ELSE Some([type |-> "Sequence", transforms |-> transforms,
               max_inner_ndim |-> MaxInputNdim(Tail(transforms))])

\* Transformation::invert; None when the transformation has no inverse
RECURSIVE invert(_)
RECURSIVE InvertAllRev(_)
RECURSIVE InvertSubs(_)

\* Sequence::invert's loop: the stages in reverse order, each inverted (None on the first failure)
InvertAllRev(ts) ==
    IF ts = <<>> THEN Some(<<>>)
    ELSE LET last == invert(ts[Len(ts)])
         IN IF ~last.some THEN None
            ELSE LET rest == InvertAllRev(SubSeq(ts, 1, Len(ts) - 1))
                 IN IF ~rest.some THEN None ELSE Some(<<last.val>> \o rest.val)

\* ByDimension::invert's loop
InvertSubs(subs) ==
    IF subs = <<>> THEN Some(<<>>)
    ELSE LET first == invert(Head(subs).transform)
         IN IF ~first.some THEN None
            ELSE LET rest == InvertSubs(Tail(subs))
                 IN IF ~rest.some THEN None
                    ELSE Some(<<SubTransform(first.val, Head(subs).out_dims, Head(subs).in_dims)>>
                              \o rest.val)

invert(t) ==
    CASE t.type = "Identity" -> Some(t)
      [] t.type = "Translate" -> Some(Translate([i \in 1..Len(t.v) |-> 0 - t.v[i]]))
      [] t.type = "Scale" -> Some(Scale(t.den, t.num))
      [] t.type = "MapAxis" ->
            Some(MapAxis([k \in 1..Len(t.map) |->
                    \* inv_map starts as zeros; inv_map[in_idx] = out_idx, the last write wins
                    LET hits == {o \in 1..Len(t.map) : t.map[o] = k - 1}
                    IN IF hits = {} THEN 0
                       ELSE (CHOOSE o \in hits : \A o2 \in hits : o2 <= o) - 1]))
      [] t.type = "Affine" -> None
      [] t.type = "Rotation" -> Some(Rotation(MatrixTranspose(t.matrix)))
      [] t.type = "Bijection" -> Some(Bijection(t.reverse, t.forward))
      [] t.type = "Sequence" ->
            LET inv == InvertAllRev(t.transforms)
            IN IF ~inv.some THEN None ELSE SequenceTryNew(inv.val)
      [] t.type = "ByDimension" ->
            LET inv == InvertSubs(t.subs)
            IN IF ~inv.some THEN None ELSE Some(ByDimension(inv.val))

\* ------------------------------------------------------------------------
\* Point form: transform_into(pt, buf) gives the contents of buf afterwards
\* ------------------------------------------------------------------------

RECURSIVE transform_into(_, _, _)
RECURSIVE transform_into_inner(_, _, _, _, _, _)
RECURSIVE ByDimPoint(_, _, _, _, _)

\* Sequence::transform_into_inner from stage idx (0-based) on; gives
\* [out_buf, buf0, buf1] as they are when the loop ends
transform_into_inner(t, pt, out_buf, buf0, buf1, idx) ==
    IF idx >= Len(t.transforms) THEN [out_buf |-> out_buf, buf0 |-> buf0, buf1 |-> buf1]
    ELSE LET st == t.transforms[idx + 1]
             in_n == input_ndim(st)
             out_n == output_ndim(st)
         IN IF idx = 0
            THEN LET w == WritePrefix(buf1, out_n,
                              transform_into(st, pt, SubSeq(buf1, 1, out_n)))
                 IN transform_into_inner(t, pt, out_buf, w, buf0, idx + 1)
            ELSE IF idx = Len(t.transforms) - 1
            THEN LET o == transform_into(st, SubSeq(buf0, 1, in_n), out_buf)
                 IN transform_into_inner(t, pt, o, buf1, buf0, idx + 1)
            ELSE LET w == WritePrefix(buf1, out_n,
                              transform_into(st, SubSeq(buf0, 1, in_n), SubSeq(buf1, 1, out_n)))
                 IN transform_into_inner(t, pt, out_buf, w, buf0, idx + 1)

\* the gather of ByDimension: (i, o) in bt.in_dims.zip(ordered_pt): o = pt[i]
Gather(in_dims, pt, ordered_pt) ==
    [k \in 1..Len(ordered_pt) |->
        IF k <= Len(in_dims) THEN pt[in_dims[k] + 1] ELSE ordered_pt[k]]

\* the scatter of ByDimension: (out_dim, val) in bt.out_dims.zip(ordered_buf): buf[out_dim] = val
RECURSIVE Scatter(_, _, _, _)
Scatter(out_dims, ordered_buf, buf, k) ==
    IF k > Min(Len(out_dims), Len(ordered_buf)) THEN buf
    ELSE Scatter(out_dims, ordered_buf,
                 [buf EXCEPT ![out_dims[k] + 1] = ordered_buf[k]], k + 1)

\* the loop over sub-transforms shared by ByDimension::transform_into and the
\* body of ByDimension::bulk_transform_into; gives [buf, ordered_pt, ordered_buf]
ByDimPoint(subs, pt, buf, ordered_pt, ordered_buf) ==
    IF subs = <<>> THEN [buf |-> buf, ordered_pt |-> ordered_pt, ordered_buf |-> ordered_buf]
    ELSE LET bt == Head(subs)
             g == Gather(bt.in_dims, pt, ordered_pt)
             o == WritePrefix(ordered_buf, Len(bt.out_dims),
                      transform_into(bt.transform, SubSeq(g, 1, Len(bt.in_dims)),
                                     SubSeq(ordered_buf, 1, Len(bt.out_dims))))
         IN ByDimPoint(Tail(subs), pt, Scatter(bt.out_dims, o, buf, 1), g, o)

transform_into(t, pt, buf) ==
    CASE t.type = "Identity" -> pt
      [] t.type = "Translate" ->
            [i \in 1..Len(buf) |->
                IF i <= Min(Len(pt), Len(t.v)) THEN t.v[i] + pt[i] ELSE buf[i]]
      [] t.type = "Scale" ->
            [i \in 1..Len(buf) |->
                IF i <= Min(Len(pt), Len(t.num)) THEN (t.num[i] * pt[i]) \div t.den[i]
                ELSE buf[i]]
      [] t.type = "MapAxis" ->
            [i \in 1..Len(buf) |-> IF i <= Len(t.map) THEN pt[t.map[i] + 1] ELSE buf[i]]
      [] t.type = "Affine" ->
            LET m == matmul_into(t.unaugmented, pt, buf)
            IN [i \in 1..Len(m) |->
                   IF i <= Len(t.translation) THEN m[i] + t.translation[i] ELSE m[i]]
      [] t.type = "Rotation" -> matmul_into(t.matrix, pt, buf)
      [] t.type = "Bijection" -> transform_into(t.forward, pt, buf)
      [] t.type = "Sequence" ->
            transform_into_inner(t, pt, buf, Fill(t.max_inner_ndim, NAN),
                                 Fill(t.max_inner_ndim, NAN), 0).out_buf
      [] t.type = "ByDimension" ->
            ByDimPoint(t.subs, pt, buf, Fill(Len(pt), NAN), Fill(Len(buf), NAN)).buf

\* tests.rs transform(t, coord): the point form into a fresh buffer of output_ndim NaNs
point_transform(t, coord) == transform_into(t, coord, Fill(output_ndim(t), NAN))

\* ------------------------------------------------------------------------
\* Bulk form: bulk_transform_into(pts, bufs) gives Done(bufs afterwards) or Panic
\* ------------------------------------------------------------------------

\* Sequence::bulk_transform_into: the two scratch buffers are carried from point to point
RECURSIVE SeqBulkLoop(_, _, _, _, _, _)
SeqBulkLoop(t, pts, bufs, buf0, buf1, i) ==
    IF i > Min(Len(pts), Len(bufs)) THEN bufs
    ELSE LET r == transform_into_inner(t, pts[i], bufs[i], buf0, buf1, 0)
         IN SeqBulkLoop(t, pts, [bufs EXCEPT ![i] = r.out_buf], r.buf0, r.buf1, i + 1)

\* &ordered_pt[..bt.in_dims.len()] or &mut ordered_buf[..bt.out_dims.len()] is out of range
ByDimSlicePanics(subs, ordered_pt_len, ordered_buf_len) ==
    \E k \in 1..Len(subs) :
        \/ Len(subs[k].in_dims) > ordered_pt_len
        \/ Len(subs[k].out_dims) > ordered_buf_len

\* ByDimension::bulk_transform_into's loop over the points
RECURSIVE ByDimBulkLoop(_, _, _, _, _, _)
ByDimBulkLoop(subs, pts, bufs, ordered_pt, ordered_buf, i) ==
    IF i > Min(Len(pts), Len(bufs)) THEN bufs
    ELSE LET r == ByDimPoint(subs, pts[i], bufs[i], ordered_pt, ordered_buf)
         IN ByDimBulkLoop(subs, pts, [bufs EXCEPT ![i] = r.buf],
                          r.ordered_pt, r.ordered_buf, i + 1)

\* ByDimension::bulk_transform_into: the scratch buffers are as long as the BATCH
\* (pts.len(), bufs.len()), by_dimension.rs:44-45
ByDimBulk(t, pts, bufs) ==
    IF Min(Len(pts), Len(bufs)) >= 1 /\ ByDimSlicePanics(t.subs, Len(pts), Len(bufs))
    THEN Panic
    ELSE Done(ByDimBulkLoop(t.subs, pts, bufs, Fill(Len(pts), NAN), Fill(Len(bufs), NAN), 1))

\* Transformation::bulk_transform_into, the trait's default
DefaultBulk(t, pts, bufs) ==
    Done([i \in 1..Len(bufs) |->
            IF i <= Len(pts) THEN transform_into(t, pts[i], bufs[i]) ELSE bufs[i]])

RECURSIVE bulk_transform_into(_, _, _)
bulk_transform_into(t, pts, bufs) ==
    CASE t.type = "Bijection" -> bulk_transform_into(t.forward, pts, bufs)
      [] t.type = "Sequence" ->
            Done(SeqBulkLoop(t, pts, bufs, Fill(t.max_inner_ndim, NAN),
                             Fill(t.max_inner_ndim, NAN), 1))
      [] t.type = "ByDimension" -> ByDimBulk(t, pts, bufs)
      [] OTHER -> DefaultBulk(t, pts, bufs)

\* ------------------------------------------------------------------------
\* Column form: column_transform_into(columns, bufs) gives bufs afterwards
\* ------------------------------------------------------------------------

\* (c, b) in col_in.zip(buf_in): b = f(c)
ZipCol(col_in, buf_in, add, num, den) ==
    [j \in 1..Len(buf_in) |->
        IF j <= Len(col_in) THEN ((col_in[j] * num) \div den) + add ELSE buf_in[j]]

\* slice.swap(a, b), 0-based
Swap(s, a, b) == [s EXCEPT ![a + 1] = s[b + 1], ![b + 1] = s[a + 1]]

\* the inner loop of ByDimension::column_transform_into (by_dimension.rs:81-101):
\* bring the columns of bt.out_dims to bufs[start..], logging every swap
RECURSIVE ByDimColSwaps(_, _, _, _)
ByDimColSwaps(out_dims, local_tgt_idx, start, st) ==
    IF local_tgt_idx >= Len(out_dims) THEN st
    ELSE LET desired_idx == out_dims[local_tgt_idx + 1]
             tgt_idx == local_tgt_idx + start
             found == {k \in tgt_idx..(Len(st.order) - 1) : st.order[k + 1] = desired_idx}
             src_idx == CHOOSE k \in found : \A k2 \in found : k <= k2
         IN IF src_idx = local_tgt_idx
            THEN ByDimColSwaps(out_dims, local_tgt_idx + 1, start, st)
            ELSE ByDimColSwaps(out_dims, local_tgt_idx + 1, start,
                    [bufs |-> Swap(st.bufs, tgt_idx, src_idx),
                     order |-> Swap(st.order, tgt_idx, src_idx),
                     swaps |-> Append(st.swaps, <<tgt_idx, src_idx>>)])

\* the logged swaps replayed oldest first instead of newest first
RECURSIVE UndoSwapsForward(_, _)
UndoSwapsForward(swaps, bufs) ==
    IF swaps = <<>> THEN bufs
    ELSE UndoSwapsForward(Tail(swaps), Swap(bufs, Head(swaps)[1], Head(swaps)[2]))

\* for (a, b) in swaps.iter().rev(): bufs.swap(a, b)
RECURSIVE UndoSwaps(_, _)
UndoSwaps(swaps, bufs) ==
    IF swaps = <<>> THEN bufs
    ELSE UndoSwaps(SubSeq(swaps, 1, Len(swaps) - 1),
                   Swap(bufs, swaps[Len(swaps)][1], swaps[Len(swaps)][2]))

RECURSIVE column_transform_into(_, _, _)
RECURSIVE SeqColLoop(_, _, _, _, _, _, _)
RECURSIVE ByDimColLoop(_, _, _, _)

\* Sequence::column_transform_into's loop (sequence.rs:94-119)
SeqColLoop(t, columns, bufs, buf0_vec, buf1_vec, buf0_input, idx) ==
    IF idx >= Len(t.transforms) THEN bufs
    ELSE LET st == t.transforms[idx + 1]
             in_ndim == input_ndim(st)
             out_ndim == output_ndim(st)
             last_idx == Len(t.transforms) - 1
         IN IF idx = 0
            THEN SeqColLoop(t, columns, bufs, buf0_vec,
                    WritePrefix(buf1_vec, out_ndim,
                        column_transform_into(st, columns, SubSeq(buf1_vec, 1, out_ndim))),
                    ~buf0_input, idx + 1)
            ELSE IF idx = last_idx
            THEN SeqColLoop(t, columns,
                    IF buf0_input
                    THEN column_transform_into(st, SubSeq(buf0_vec, 1, in_ndim), bufs)
                    ELSE column_transform_into(st, SubSeq(buf1_vec, 1, in_ndim), bufs),
                    buf0_vec, buf1_vec, ~buf0_input, idx + 1)
            ELSE IF buf0_input
            THEN SeqColLoop(t, columns, bufs, buf0_vec,
                    WritePrefix(buf1_vec, out_ndim,
                        column_transform_into(st, SubSeq(buf0_vec, 1, in_ndim),
                                              SubSeq(buf1_vec, 1, out_ndim))),
                    ~buf0_input, idx + 1)
            ELSE SeqColLoop(t, columns, bufs,
                    WritePrefix(buf0_vec, out_ndim,
                        column_transform_into(st, SubSeq(buf1_vec, 1, in_ndim),
                                              SubSeq(buf0_vec, 1, out_ndim))),
                    buf1_vec, ~buf0_input, idx + 1)

\* a loop over the sub-transforms that hands each one the leading input columns
\* instead of the columns its in_dims name
RECURSIVE ByDimColLoopUngathered(_, _, _, _)
ByDimColLoopUngathered(subs, columns, st, start) ==
    IF subs = <<>> THEN st
    ELSE LET bt == Head(subs)
             sw == ByDimColSwaps(bt.out_dims, 0, start, st)
             end == start + Len(bt.out_dims)
             written == column_transform_into(bt.transform,
                                              SubSeq(columns, 1, Len(bt.in_dims)),
                                              SubSeq(sw.bufs, start + 1, end))
         IN ByDimColLoopUngathered(Tail(subs), columns,
                [sw EXCEPT !.bufs = [k \in 1..Len(sw.bufs) |->
                    IF k > start /\ k <= end THEN written[k - start] ELSE sw.bufs[k]]],
                end)

\* ByDimension::column_transform_into's loop over the sub-transforms; st is
\* [bufs, order, swaps]
ByDimColLoop(subs, columns, st, start) ==
    IF subs = <<>> THEN st
    ELSE LET bt == Head(subs)
             input_cols == [k \in 1..Len(bt.in_dims) |-> columns[bt.in_dims[k] + 1]]
             sw == ByDimColSwaps(bt.out_dims, 0, start, st)
             end == start + Len(bt.out_dims)
             written == column_transform_into(bt.transform, input_cols,
                                              SubSeq(sw.bufs, start + 1, end))
         IN ByDimColLoop(Tail(subs), columns,
                [sw EXCEPT !.bufs = [k \in 1..Len(sw.bufs) |->
                    IF k > start /\ k <= end THEN written[k - start] ELSE sw.bufs[k]]],
                end)

column_transform_into(t, columns, bufs) ==
    CASE t.type = "Identity" ->
            [i \in 1..Len(bufs) |-> IF i <= Len(columns) THEN columns[i] ELSE bufs[i]]
      [] t.type = "Translate" ->
            [i \in 1..Len(bufs) |->
                IF i <= Min(Len(columns), Len(t.v))
                THEN ZipCol(columns[i], bufs[i], t.v[i], 1, 1) ELSE bufs[i]]
      [] t.type = "Scale" ->
            [i \in 1..Len(bufs) |->
                IF i <= Min(Len(columns), Len(t.num))
                THEN ZipCol(columns[i], bufs[i], 0, t.num[i], t.den[i]) ELSE bufs[i]]
      [] t.type = "MapAxis" ->
            [i \in 1..Len(bufs) |->
                IF i <= Len(t.map) THEN columns[t.map[i] + 1] ELSE bufs[i]]
      [] t.type = "Affine" ->
            LET m == matmul_transposed_into(t.unaugmented, columns, bufs)
            IN [i \in 1..Len(m) |->
                   IF i <= Len(t.translation)
                   THEN [j \in 1..Len(m[i]) |-> m[i][j] + t.translation[i]] ELSE m[i]]
      [] t.type = "Rotation" -> matmul_transposed_into(t.matrix, columns, bufs)
      [] t.type = "Bijection" -> column_transform_into(t.forward, columns, bufs)
      [] t.type = "Sequence" ->
            LET n_pts == Len(columns[1])
            IN SeqColLoop(t, columns, bufs,
                          vec_of_vec(t.max_inner_ndim, n_pts, NAN),
                          vec_of_vec(t.max_inner_ndim, n_pts, NAN), TRUE, 0)
      [] t.type = "ByDimension" ->
            LET st == ByDimColLoop(t.subs, columns,
                        [bufs |-> bufs, order |-> [k \in 1..Len(bufs) |-> k - 1],
                         swaps |-> <<>>], 0)
            IN UndoSwaps(st.swaps, st.bufs)

\* ------------------------------------------------------------------------
\* SequenceBuilder
\* ------------------------------------------------------------------------

Err == [ok |-> FALSE]
Ok(x) == [ok |-> TRUE, val |-> x]

\* a builder that pushes every stage without looking at its dimensionality
add_arced_unchecked(builder, t) == [ok |-> TRUE, val |-> Append(builder, t)]

\* SequenceBuilder::add_arced on the builder's list
add_arced(builder, t) ==
    IF builder # <<>> /\ input_ndim(t) # output_ndim(builder[Len(builder)])
    THEN Err
    ELSE Ok(Append(builder, t))

\* a retain that drops nothing
RetainAll(ts) == ts

\* Vec::retain(|t| !t.is_identity())
RECURSIVE RetainNonIdentity(_)
RetainNonIdentity(ts) ==
    IF ts = <<>> THEN <<>>
    ELSE IF is_identity(Head(ts)) THEN RetainNonIdentity(Tail(ts))
         ELSE <<Head(ts)>> \o RetainNonIdentity(Tail(ts))

\* SequenceBuilder::build: no stage is skipped
build(builder) == SequenceTryNew(builder)

\* SequenceBuilder::build_any
build_any(builder) ==
    IF builder = <<>> THEN Err
    ELSE LET ndim == input_ndim(builder[Len(builder)])
             kept == RetainNonIdentity(builder)
         IN CASE Len(kept) = 0 -> Ok(Identity(ndim))
              [] Len(kept) = 1 -> Ok(kept[1])
              [] OTHER -> Ok(SequenceTryNew(kept).val)

\* ------------------------------------------------------------------------
\* TransformGraph
\* ------------------------------------------------------------------------

Labels == {"a", "b", "c"}

\* the most edges the graph holds under the routing specification, and the most
\* entries the path cache holds
MaxEdges == 3
MaxCached == 1

VARIABLES
    graph,          \* graph[<<u, v>>]: the edges u -> v, as edges_connecting(u, v) yields
                    \* them (most recently added first); a node is named by its label
    coord_systems,  \* HashMap label -> NodeInfo (its ndim)
    path_cache,     \* HashMap (src, tgt) -> Option<transformation>
    add_edge_ret,   \* what the most recent add_edge returned
    inverse_added,  \* history: the <<src, tgt>> of every successful add_edge called with
                    \* with_inverse = true and an invertible transformation
    xform,          \* the transformation the bulk and column forms are applied to
    pts,            \* the batch of points
    bulk_ret,       \* None, or Some(outcome of bulk_transform on pts)
    col_ret,        \* None, or Some(outcome of column_transform on the transposed pts)
    subject,        \* the value a constructor, builder or pure function is applied to
    outcome         \* None, or Some(what that application gave)

gvars == <<graph, coord_systems, path_cache, add_edge_ret, inverse_added>>
tvars == <<xform, pts, bulk_ret, col_ret>>
pvars == <<subject, outcome>>
vars == <<gvars, tvars, pvars>>

Edge(transform, cost) == [transform |-> transform, cost |-> cost]

EmptyMap == << >>
MapInsert(m, k, v) == [x \in (DOMAIN m) \cup {k} |-> IF x = k THEN v ELSE m[x]]

Pairs == Labels \X Labels

RECURSIVE SumEdges(_, _)
SumEdges(g, ps) ==
    IF ps = {} THEN 0
    ELSE LET p == CHOOSE p \in ps : TRUE IN Len(g[p]) + SumEdges(g, ps \ {p})

NumEdges(g) == SumEdges(g, Pairs)

\* TransformGraph::ensure_coord_system: Err, or Ok(the map afterwards)
ensure_coord_system(cs, node, ndim) ==
    IF node \in DOMAIN cs
    THEN IF cs[node].ndim # ndim THEN Err ELSE Ok(cs)
    ELSE Ok(MapInsert(cs, node, [ndim |-> ndim]))

\* StableDiGraph::add_edge
GraphAddEdge(g, u, v, e) == [g EXCEPT ![<<u, v>>] = <<e>> \o @]

\* a best_edge that takes the most recently added edge, whatever it costs
best_edge_newest(g, src, tgt) ==
    IF g[<<src, tgt>>] = <<>> THEN None ELSE Some(g[<<src, tgt>>][1])

\* TransformGraph::best_edge: min_by_key keeps the first of several minima
best_edge(g, src, tgt) ==
    LET es == g[<<src, tgt>>]
    IN IF es = <<>> THEN None
       ELSE Some(es[CHOOSE i \in 1..Len(es) :
                      \A j \in 1..Len(es) :
                          es[i].cost < es[j].cost \/ (es[i].cost = es[j].cost /\ i <= j)])

\* the sequences of distinct nodes from u to v along which every hop has an edge
DirectedPaths(g, nodes, u, v) ==
    UNION {{p \in [1..n -> nodes] :
                /\ p[1] = u
                /\ p[n] = v
                /\ \A i, j \in 1..n : i # j => p[i] # p[j]
                /\ \A i \in 1..(n - 1) : g[<<p[i], p[i + 1]>>] # <<>>}
           : n \in 2..Cardinality(nodes)}

RECURSIVE PathCost(_, _)
PathCost(g, p) ==
    IF Len(p) < 2 THEN 0
    ELSE best_edge(g, p[1], p[2]).val.cost + PathCost(g, Tail(p))

\* petgraph's astar with a zero heuristic: a path of least total cost, None if there is none
astar(g, nodes, u, v) ==
    LET ps == DirectedPaths(g, nodes, u, v)
    IN IF ps = {} THEN None
       ELSE Some(CHOOSE p \in ps : \A q \in ps : PathCost(g, p) <= PathCost(g, q))

\* a fusing loop that puts every later hop in front of the earlier ones
RECURSIVE FusePathReversed(_, _, _)
FusePathReversed(g, path, builder) ==
    IF Len(path) < 2 THEN builder
    ELSE FusePathReversed(g, Tail(path),
                          <<best_edge(g, path[1], path[2]).val.transform>> \o builder)

\* the loop of find_path over path.windows(2), feeding the builder
RECURSIVE FusePath(_, _, _)
FusePath(g, path, builder) ==
    IF Len(path) < 2 THEN builder
    ELSE FusePath(g, Tail(path),
                  add_arced(builder, best_edge(g, path[1], path[2]).val.transform).val)

\* PathCache::get: None for a vacant entry, Some(entry) otherwise
CacheGet(cache, src, tgt) ==
    IF <<src, tgt>> \in DOMAIN cache THEN Some(cache[<<src, tgt>>]) ELSE None

\* an insert that records every pair as unreachable
CacheInsertMiss(cache, src, tgt, maybe_t) == MapInsert(cache, <<src, tgt>>, None)

\* PathCache::insert
CacheInsert(cache, src, tgt, maybe_t) == MapInsert(cache, <<src, tgt>>, maybe_t)

\* a clear that leaves the entries in place
CacheClearKeeps(cache) == cache

\* PathCache::clear_mut
CacheClear(cache) == EmptyMap

\* an add_edge that never derives the inverse edge
inverse_edge_never(t, w, with_inverse) == None

\* the inverse edge add_edge inserts: Some(edge) when with_inverse and t.invert() is Some
inverse_edge(t, w, with_inverse) ==
    IF with_inverse /\ invert(t).some THEN Some(Edge(invert(t).val, w)) ELSE None

\* TransformGraph::find_path: [ret |-> what it returns, cache |-> the path cache afterwards]
find_path(g, cs, cache, from, to) ==
    IF from \notin DOMAIN cs THEN [ret |-> None, cache |-> cache]
    ELSE IF from = to THEN [ret |-> Some(Identity(cs[from].ndim)), cache |-> cache]
    ELSE IF to \notin DOMAIN cs THEN [ret |-> None, cache |-> cache]
    ELSE IF CacheGet(cache, from, to).some
         THEN [ret |-> CacheGet(cache, from, to).val, cache |-> cache]
    ELSE IF best_edge(g, from, to).some
         THEN LET e == best_edge(g, from, to).val
                  t == IF is_identity(e.transform) THEN Identity(cs[from].ndim)
                       ELSE e.transform
              IN [ret |-> Some(t), cache |-> CacheInsert(cache, from, to, Some(t))]
    ELSE LET found == astar(g, DOMAIN cs, from, to)
         IN IF ~found.some
            THEN [ret |-> None, cache |-> CacheInsert(cache, from, to, None)]
            ELSE LET t == build_any(FusePath(g, found.val, <<>>)).val
                 IN [ret |-> Some(t), cache |-> CacheInsert(cache, from, to, Some(t))]

\* TransformGraph::add_edge: [ret, graph, coord_systems, path_cache] afterwards
add_edge(g, cs, cache, src_s, tgt_s, transform, weight, with_inverse) ==
    LET cleared == CacheClear(cache)
    IN IF src_s = tgt_s
       THEN LET r == ensure_coord_system(cs, src_s, input_ndim(transform))
            IN IF ~r.ok
               THEN [ret |-> "err", graph |-> g, coord_systems |-> cs, path_cache |-> cleared]
               ELSE [ret |-> "ok_true", graph |-> g, coord_systems |-> r.val,
                     path_cache |-> cleared]
       ELSE LET ru == ensure_coord_system(cs, src_s, input_ndim(transform))
            IN IF ~ru.ok
               THEN [ret |-> "err", graph |-> g, coord_systems |-> cs, path_cache |-> cleared]
               ELSE LET rv == ensure_coord_system(ru.val, tgt_s, output_ndim(transform))
                    IN IF ~rv.ok
                       THEN [ret |-> "err", graph |-> g, coord_systems |-> ru.val,
                             path_cache |-> cleared]
                       ELSE LET ident == is_identity(transform)
                                t == IF ident THEN Identity(input_ndim(transform))
                                     ELSE transform
                                w == IF ident THEN 0 ELSE weight
                                inverse == inverse_edge(t, w, with_inverse)
                                added_inverse == inverse.some
                                g1 == IF added_inverse
                                      THEN GraphAddEdge(g, tgt_s, src_s, inverse.val)
                                      ELSE g
                            IN [ret |-> IF added_inverse THEN "ok_true" ELSE "ok_false",
                                graph |-> GraphAddEdge(g1, src_s, tgt_s, Edge(t, w)),
                                coord_systems |-> rv.val,
                                path_cache |-> cleared]

\* ------------------------------------------------------------------------
\* The graph as a state machine
\* ------------------------------------------------------------------------

\* TransformGraph::default()
GraphInit ==
    /\ graph = [p \in Pairs |-> <<>>]
    /\ coord_systems = EmptyMap
    /\ path_cache = EmptyMap
    /\ add_edge_ret = "none"
    /\ inverse_added = {}

\* no transformation under test
NoBatch ==
    /\ xform = None
    /\ pts = <<>>
    /\ bulk_ret = None
    /\ col_ret = None

\* no constructor, builder or function under test
NoSubject ==
    /\ subject = None
    /\ outcome = None

Init == GraphInit /\ NoBatch /\ NoSubject

AddEdge(src_s, tgt_s, transform, weight, with_inverse) ==
    LET r == add_edge(graph, coord_systems, path_cache,
                      src_s, tgt_s, transform, weight, with_inverse)
    IN /\ graph' = r.graph
       /\ coord_systems' = r.coord_systems
       /\ path_cache' = r.path_cache
       /\ add_edge_ret' = r.ret
       /\ inverse_added' =
            IF with_inverse /\ r.ret # "err" /\ invert(transform).some
            THEN inverse_added \cup {<<src_s, tgt_s>>}
            ELSE inverse_added
       /\ UNCHANGED <<tvars, pvars>>

FindPath(from, to) ==
    LET r == find_path(graph, coord_systems, path_cache, from, to)
    IN /\ Cardinality(DOMAIN r.cache) <= MaxCached
       /\ path_cache' = r.cache
       /\ UNCHANGED <<graph, coord_systems, add_edge_ret, inverse_added>>
       /\ UNCHANGED <<tvars, pvars>>

\* what find_path(from, to) returns when called in the current state
FindPathRet(from, to) == find_path(graph, coord_systems, path_cache, from, to).ret

\* the same call on a graph with the same nodes and edges and an empty path cache
FindPathFresh(from, to) == find_path(graph, coord_systems, EmptyMap, from, to).ret

\* Inputs of the routing specification: edges between distinct labels, carrying an
\* identity or a translation at cost 0 or 1, added without their inverses
Costs == {0, 1}
RouteTransforms == {Identity(2), Translate(<<1, 2>>)}

Next ==
    \/ \E src_s, tgt_s \in Labels, transform \in RouteTransforms, weight \in Costs :
          /\ src_s # tgt_s
          /\ AddEdge(src_s, tgt_s, transform, weight, FALSE)
          /\ NumEdges(graph') <= MaxEdges
    \/ \E from, to \in Labels : FindPath(from, to)

Spec == Init /\ [][Next]_vars

\* ------------------------------------------------------------------------
\* Properties of routing (checked under Spec)
\* ------------------------------------------------------------------------

\* sample points of n dimensions
Points(n) == [1..n -> {0, 3}] \cup {[i \in 1..n |-> 2 * i + 1]}

\* two transformations between the same spaces that map every sample point alike
SameBehaviour(t1, t2) ==
    /\ input_ndim(t1) = input_ndim(t2)
    /\ output_ndim(t1) = output_ndim(t2)
    /\ \A p \in Points(input_ndim(t1)) : point_transform(t1, p) = point_transform(t2, p)

Registered == DOMAIN coord_systems

\* the least cost of an edge x -> y, and the total of these along a path
HopCost(x, y) ==
    LET es == graph[<<x, y>>]
    IN es[CHOOSE i \in 1..Len(es) : \A j \in 1..Len(es) : es[i].cost <= es[j].cost].cost

RECURSIVE TotalCost(_)
TotalCost(p) == IF Len(p) < 2 THEN 0 ELSE HopCost(p[1], p[2]) + TotalCost(Tail(p))

AllPaths(a, b) == DirectedPaths(graph, Registered, a, b)

\* C1: for distinct registered labels a, b joined by a directed path, find_path(a, b)
\* returns the transformation fused from a path of least total cost among all
\* directed paths from a to b (also when a dearer direct edge a -> b exists)
C1_MinCostPath ==
    \A a, b \in Registered :
        (a # b /\ AllPaths(a, b) # {}) =>
            LET r == FindPathRet(a, b)
            IN /\ r.some
               /\ \E p \in AllPaths(a, b) :
                     /\ \A q \in AllPaths(a, b) : TotalCost(p) <= TotalCost(q)
                     /\ SameBehaviour(r.val, build_any(FusePath(graph, p, <<>>)).val)

\* C2: every find_path(from, to) returns what it would return on the same nodes and
\* edges with an empty path cache: no entry outlives the add_edge that outdates it
C2_CacheTransparent ==
    \A from, to \in Labels : FindPathRet(from, to) = FindPathFresh(from, to)

\* a "no path" answer is cached in a graph that has edges, and another answer is cached
C2_Witness ==
    /\ NumEdges(graph) >= 2
    /\ \E k \in DOMAIN path_cache : path_cache[k] = None

\* the nodes find_path(a, b) routes through: the direct hop when there is one
Route(a, b) ==
    IF graph[<<a, b>>] # <<>> THEN <<a, b>> ELSE astar(graph, Registered, a, b).val

\* the edges x -> y of least cost
MinCostEdges(x, y) ==
    LET es == graph[<<x, y>>]
    IN {es[i] : i \in {i \in 1..Len(es) : \A j \in 1..Len(es) : es[i].cost <= es[j].cost}}

\* one least-cost edge for every hop of a path
HopChoices(path) ==
    {f \in [1..(Len(path) - 1) ->
                UNION {MinCostEdges(path[i], path[i + 1]) : i \in 1..(Len(path) - 1)}] :
        \A i \in 1..(Len(path) - 1) : f[i] \in MinCostEdges(path[i], path[i + 1])}

\* C7: on every hop x -> y of the route the returned transformation uses the
\* transformation of a least-cost edge x -> y and of no other edge, whatever the order
\* in which the edges were added
C7_LowestCostEdge ==
    \A a, b \in Registered :
        (a # b /\ AllPaths(a, b) # {}) =>
            \E f \in HopChoices(Route(a, b)) :
                FindPathRet(a, b) =
                    Some(build_any([i \in 1..Len(f) |-> f[i].transform]).val)

\* two edges a -> b of different costs, the dearer one added last, and the pair queried
C7_Witness ==
    \E a, b \in Registered :
        /\ Len(graph[<<a, b>>]) >= 2
        /\ graph[<<a, b>>][1].cost > graph[<<a, b>>][2].cost
        /\ graph[<<a, b>>][1].transform # graph[<<a, b>>][2].transform
        /\ <<a, b>> \in DOMAIN path_cache

\* C8: whenever an edge a -> b carries an identity, find_path(a, b) returns an
\* identity, whatever other edges a -> b there are and whatever they cost
C8_IdentityEdgeWins ==
    \A a, b \in Registered :
        (a # b /\ \E i \in 1..Len(graph[<<a, b>>]) : is_identity(graph[<<a, b>>][i].transform))
            => LET r == FindPathRet(a, b)
               IN /\ r.some
                  /\ is_identity(r.val)
                  /\ \A p \in Points(input_ndim(r.val)) : point_transform(r.val, p) = p

\* ------------------------------------------------------------------------
\* Edges with inverses (SpecInv)
\* ------------------------------------------------------------------------

\* the most edges the graph holds under SpecInv: a chain a <-> b <-> c
MaxEdgesInv == 4

\* graph.rs DEFAULT_COST
DEFAULT_COST == 1

\* Inputs of SpecInv: a translation and an axis swap (they do not commute), at the
\* default cost, with and without their inverses
InvTransforms == {Translate(<<1, 2>>), MapAxis(<<1, 0>>)}

NextInv ==
    \/ \E src_s, tgt_s \in Labels, transform \in InvTransforms, with_inverse \in BOOLEAN :
          /\ src_s # tgt_s
          /\ AddEdge(src_s, tgt_s, transform, DEFAULT_COST, with_inverse)
          /\ NumEdges(graph') <= MaxEdgesInv
    \/ \E from, to \in Labels : FindPath(from, to)

SpecInv == Init /\ [][NextInv]_vars

\* the chosen edge of every hop applied to a point, one after another in path order
RECURSIVE ApplyAlong(_, _)
ApplyAlong(path, p) ==
    IF Len(path) < 2 THEN p
    ELSE ApplyAlong(Tail(path),
                    point_transform(best_edge(graph, path[1], path[2]).val.transform, p))

\* a -> b and b -> a hold one edge each, the second the inverse of the first
InversePair(a, b) ==
    /\ Len(graph[<<a, b>>]) = 1
    /\ Len(graph[<<b, a>>]) = 1
    /\ Some(graph[<<b, a>>][1].transform) = invert(graph[<<a, b>>][1].transform)

\* a <-> b <-> c built from edges with inverses, and no edge between a and c
InverseChain(a, b, c) ==
    /\ a # b /\ b # c /\ a # c
    /\ InversePair(a, b)
    /\ InversePair(b, c)
    /\ graph[<<a, c>>] = <<>>
    /\ graph[<<c, a>>] = <<>>

\* C3: the transformation of a multi-edge path maps a point as the chosen edges do
\* one after another in path order; along edges added with their inverses the
\* reverse query applies the inverses in the reverse order
C3_ComposesInPathOrder ==
    /\ \A a, b \in Registered :
          (a # b /\ graph[<<a, b>>] = <<>> /\ AllPaths(a, b) # {}) =>
              LET r == FindPathRet(a, b)
                  path == astar(graph, Registered, a, b).val
              IN /\ r.some
                 /\ \A p \in Points(coord_systems[a].ndim) :
                       point_transform(r.val, p) = ApplyAlong(path, p)
    /\ \A a, b, c \in Registered :
          InverseChain(a, b, c) =>
              LET fwd1 == graph[<<a, b>>][1].transform
                  fwd2 == graph[<<b, c>>][1].transform
                  back == FindPathRet(c, a)
                  forth == FindPathRet(a, c)
              IN /\ back.some /\ forth.some
                 /\ \A q \in Points(coord_systems[c].ndim) :
                       point_transform(back.val, q) =
                           point_transform(invert(fwd1).val,
                                           point_transform(invert(fwd2).val, q))
                 /\ \A p \in Points(coord_systems[a].ndim) :
                       point_transform(back.val, point_transform(forth.val, p)) = p

\* a chain of a translation and an axis swap with their inverses, queried end to end
C3_Witness ==
    \E a, b, c \in Registered :
        /\ InverseChain(a, b, c)
        /\ graph[<<a, b>>][1].transform.type # graph[<<b, c>>][1].transform.type
        /\ <<c, a>> \in DOMAIN path_cache
        /\ path_cache[<<c, a>>].some
        /\ path_cache[<<c, a>>].val.type = "Sequence"

\* find_path(a, b) returns Some in the current state
Found(a, b) == FindPathRet(a, b).some

\* C4: once add_edge(a, b, T, c, true) with an invertible T has succeeded,
\* find_path(a, b) and find_path(b, a) return Some in every later state; where the
\* edges (added without an inverse) leave no route from b to a, find_path(b, a) is None
C4_BothWays ==
    /\ \A k \in inverse_added : Found(k[1], k[2]) /\ Found(k[2], k[1])
    /\ \A a, b \in Registered : (a # b /\ AllPaths(b, a) = {}) => ~Found(b, a)

\* an edge was added with its inverse, more edges followed, and a one-way edge
\* leaves a node from which there is no way back
C4_Witness ==
    \E k \in inverse_added :
        /\ k[1] # k[2]
        /\ add_edge_ret = "ok_false"
        /\ <<k[2], k[1]>> \in DOMAIN path_cache
        /\ \E c \in Registered : c # k[1] /\ AllPaths(c, k[1]) = {} /\ AllPaths(k[1], c) # {}

\* ------------------------------------------------------------------------
\* Dimensionalities and return values (SpecDims)
\* ------------------------------------------------------------------------

\* the most edges the graph holds under SpecDims
MaxEdgesDims == 2

\* Inputs of SpecDims: a 1-D and a 2-D translation and an affine map from 2-D to 1-D
\* (which has no inverse), between any labels, a label and itself included
DimTransforms ==
    {Translate(<<1>>), Translate(<<1, 2>>), Affine(Matrix(<<1, 1>>, 2), <<0>>)}

NextDims ==
    \/ \E src_s, tgt_s \in Labels, transform \in DimTransforms, with_inverse \in BOOLEAN :
          /\ AddEdge(src_s, tgt_s, transform, DEFAULT_COST, with_inverse)
          /\ NumEdges(graph') <= MaxEdgesDims
    \/ \E from, to \in Labels : FindPath(from, to)

SpecDims == Init /\ [][NextDims]_vars

\* the transformation disagrees with a dimensionality already registered for src or tgt
Disagrees(src_s, tgt_s, transform) ==
    \/ src_s \in Registered /\ coord_systems[src_s].ndim # input_ndim(transform)
    \/ tgt_s \in Registered /\ coord_systems[tgt_s].ndim # output_ndim(transform)

\* C5: an add_edge(src, tgt, T, ..) that returns Ok has T.input_ndim equal to the
\* dimensionality registered for src and T.output_ndim equal to the one registered
\* for tgt, and a T that disagrees with a registered dimensionality gets an error,
\* also when src and tgt are the same label
C5_DimsChecked ==
    [][\A src_s, tgt_s \in Labels, transform \in DimTransforms, with_inverse \in BOOLEAN :
          AddEdge(src_s, tgt_s, transform, DEFAULT_COST, with_inverse) =>
              /\ add_edge_ret' # "err" =>
                    /\ coord_systems'[src_s].ndim = input_ndim(transform)
                    /\ coord_systems'[tgt_s].ndim = output_ndim(transform)
              /\ Disagrees(src_s, tgt_s, transform) => add_edge_ret' = "err"]_vars

\* C6: a successful add_edge returns true exactly when the call put a reverse edge
\* tgt -> src into the graph; it returns false when no edge at all was inserted
C6_TrueIffInverseInserted ==
    [][\A src_s, tgt_s \in Labels, transform \in DimTransforms, with_inverse \in BOOLEAN :
          (AddEdge(src_s, tgt_s, transform, DEFAULT_COST, with_inverse)
           /\ add_edge_ret' # "err") =>
              /\ add_edge_ret' = "ok_true"
                    <=> Len(graph'[<<tgt_s, src_s>>]) > Len(graph[<<tgt_s, src_s>>])
              /\ NumEdges(graph') = NumEdges(graph) => add_edge_ret' = "ok_false"]_vars

\* ------------------------------------------------------------------------
\* The three forms of a transformation (SpecT)
\* ------------------------------------------------------------------------

\* the longest batch
MaxBatch == 3

\* tests.rs bulk_transform(t, coords)
bulk_transform(t, coords) ==
    bulk_transform_into(t, coords, Fill(Len(coords), Fill(output_ndim(t), NAN)))

\* tests.rs column_transform(t, columns)
column_transform(t, columns) ==
    column_transform_into(t, columns, Fill(output_ndim(t), Fill(Len(columns[1]), NAN)))

\* the batch as columns: column d holds component d of every point
Transposed(coords, ndim) == [d \in 1..ndim |-> [i \in 1..Len(coords) |-> coords[i][d]]]

\* the k-th sample point of n dimensions
SamplePoint(n, k) == [d \in 1..n |-> IF k = 2 THEN 7 - 2 * d ELSE 3 * k + d]

SamplePoints(n) == {SamplePoint(n, k) : k \in 0..2}

Quarter == Rotation(Matrix(<<0, -1, 1, 0>>, 2))
Shear == Affine(Matrix(<<1, 2, 0, 1>>, 2), <<5, -1>>)
Widen == Affine(Matrix(<<1, 0, 0, 1, 1, 1>>, 2), <<0, 0, 4>>)
Flatten == Affine(Matrix(<<1, 2, 3>>, 3), <<1>>)

\* by_dimension.rs tests: a translation on dims [0, 2] -> [1, 0], a scale on [1] -> [2]
ByDimSplit ==
    ByDimension(<<SubTransform(Translate(<<-1, 2>>), <<0, 2>>, <<1, 0>>),
                  SubTransform(Scale(<<100>>, <<1>>), <<1>>, <<2>>)>>)

\* a scale on [2] -> [0], then the identity the builder adds for what is left
ByDimFilled ==
    ByDimension(<<SubTransform(Scale(<<3>>, <<1>>), <<2>>, <<0>>),
                  SubTransform(Identity(2), <<0, 1>>, <<1, 2>>)>>)

\* three one-dimensional entries that rotate the dimensions
ByDimCycle ==
    ByDimension(<<SubTransform(Translate(<<1>>), <<0>>, <<2>>),
                  SubTransform(Scale(<<2>>, <<1>>), <<1>>, <<0>>),
                  SubTransform(Translate(<<-3>>), <<2>>, <<1>>)>>)

\* an entry that maps two dimensions to three, and one that maps one to one
ByDimWiden ==
    ByDimension(<<SubTransform(Widen, <<2, 0>>, <<3, 0, 2>>),
                  SubTransform(Scale(<<2>>, <<1>>), <<1>>, <<1>>)>>)

\* the transformations under test: every kind, sequences of two to four stages of
\* different widths, ByDimensions with different assignments of dimensions, and
\* the two nested in each other
Catalogue ==
    { Identity(2), Translate(<<1, -2>>), Scale(<<2, 3>>, <<1, 1>>), MapAxis(<<1, 0>>),
      Shear, Flatten, Quarter, Bijection(Translate(<<4, 5>>), Translate(<<-4, -5>>)),
      build(<<Translate(<<1, -2>>), MapAxis(<<1, 0>>)>>).val,
      build(<<Shear, Quarter, Scale(<<2, 3>>, <<1, 1>>)>>).val,
      build(<<Widen, Flatten, Translate(<<2>>), Scale(<<3>>, <<1>>)>>).val,
      build(<<MapAxis(<<2, 0, 1>>), ByDimSplit, Flatten>>).val,
      ByDimSplit, ByDimFilled, ByDimCycle, ByDimWiden,
      ByDimension(<<SubTransform(build(<<Shear, Quarter>>).val, <<2, 1>>, <<0, 2>>),
                    SubTransform(Identity(1), <<0>>, <<1>>)>>) }

InitT ==
    /\ GraphInit
    /\ xform \in Catalogue
    /\ pts = <<>>
    /\ bulk_ret = None
    /\ col_ret = None
    /\ NoSubject

\* one more point joins the batch
PushPoint(pt) ==
    /\ Len(pts) < MaxBatch
    /\ pts' = Append(pts, pt)
    /\ bulk_ret' = None
    /\ col_ret' = None
    /\ UNCHANGED <<xform, gvars, pvars>>

ApplyBulk ==
    /\ bulk_ret = None
    /\ bulk_ret' = Some(bulk_transform(xform, pts))
    /\ UNCHANGED <<xform, pts, col_ret, gvars, pvars>>

ApplyColumns ==
    /\ col_ret = None
    /\ col_ret' = Some(column_transform(xform, Transposed(pts, input_ndim(xform))))
    /\ UNCHANGED <<xform, pts, bulk_ret, gvars, pvars>>

NextT ==
    \/ \E pt \in SamplePoints(input_ndim(xform)) : PushPoint(pt)
    \/ ApplyBulk
    \/ ApplyColumns

SpecT == InitT /\ [][NextT]_vars

\* C9: for every transformation and every batch, one with fewer points than the
\* transformation has dimensions included, the bulk form returns and leaves in
\* output i what the point form gives for point i
C9_BulkEqualsPoint ==
    bulk_ret.some =>
        bulk_ret.val = Done([i \in 1..Len(pts) |-> point_transform(xform, pts[i])])

\* C10: for every transformation and every batch, column d of the column form's
\* output holds at sample i component d of what the point form gives for point i
C10_ColumnEqualsPoint ==
    col_ret.some =>
        /\ Len(col_ret.val) = output_ndim(xform)
        /\ \A d \in 1..output_ndim(xform) :
              /\ Len(col_ret.val[d]) = Len(pts)
              /\ \A i \in 1..Len(pts) : col_ret.val[d][i] = point_transform(xform, pts[i])[d]

\* the column form has run on a batch of different points for a sequence of at least
\* three stages that holds a ByDimension whose entries reorder the dimensions
C10_Witness ==
    /\ col_ret.some
    /\ Len(pts) >= 2
    /\ pts[1] # pts[2]
    /\ xform.type = "Sequence"
    /\ Len(xform.transforms) >= 3
    /\ \E k \in 1..Len(xform.transforms) :
          /\ xform.transforms[k].type = "ByDimension"
          /\ \E j \in 1..Len(xform.transforms[k].subs) :
                xform.transforms[k].subs[j].in_dims # xform.transforms[k].subs[j].out_dims

\* ------------------------------------------------------------------------
\* Inversion round trip (SpecRoundTrip)
\* ------------------------------------------------------------------------

\* Bijection::try_new: only the dimensionalities of the two directions are compared
BijectionTryNew(forward, reverse) ==
    IF input_ndim(forward) # output_ndim(reverse) \/ input_ndim(reverse) # output_ndim(forward)
    THEN [ok |-> FALSE]
    ELSE [ok |-> TRUE, val |-> Bijection(forward, reverse)]

\* a rotation of the three axes into each other
Cycle3 == Rotation(Matrix(<<0, 1, 0, 0, 0, 1, 1, 0, 0>>, 3))

\* invertible transformations of every kind the constructors accept (scales are whole
\* numbers, so that their inverses divide exactly)
Invertibles ==
    { Identity(2), Translate(<<1, -2>>), Scale(<<2, 3>>, <<1, 1>>), MapAxis(<<1, 0>>),
      MapAxis(<<2, 0, 1>>), Quarter, Cycle3,
      BijectionTryNew(Translate(<<4, 5>>), Translate(<<-4, -5>>)).val,
      BijectionTryNew(Translate(<<1, 2>>), Scale(<<2, 2>>, <<1, 1>>)).val,
      build(<<Translate(<<1, 2, 3>>), MapAxis(<<2, 0, 1>>), Scale(<<2, 1, 3>>, <<1, 1, 1>>)>>).val,
      build(<<Quarter, Translate(<<3, 0>>)>>).val,
      build(<<MapAxis(<<2, 0, 1>>), ByDimSplit, Cycle3>>).val,
      ByDimSplit, ByDimFilled, ByDimCycle,
      ByDimension(<<SubTransform(build(<<Quarter, Translate(<<3, 0>>)>>).val, <<2, 1>>, <<0, 2>>),
                    SubTransform(Scale(<<5>>, <<1>>), <<0>>, <<1>>)>>) }

\* points of n dimensions
RoundTripPoints(n) == {[d \in 1..n |-> a + b * d] : a \in {0, 4}, b \in {-1, 1, 2}}

InitRoundTrip ==
    /\ GraphInit
    /\ NoBatch
    /\ \E t \in Invertibles : \E pt \in RoundTripPoints(input_ndim(t)) :
          subject = [t |-> t, pt |-> pt]
    /\ outcome = None

\* tests.rs check_inverse_transform_coord for one point: t, then t.invert()
CheckInverse ==
    /\ outcome = None
    /\ invert(subject.t).some
    /\ LET inv_t == invert(subject.t).val
           transformed == transform_into(subject.t, subject.pt,
                                         Fill(output_ndim(subject.t), NAN))
           inverted == transform_into(inv_t, transformed, Fill(output_ndim(inv_t), NAN))
       IN outcome' = Some([inverted |-> inverted,
                           input_ndim |-> input_ndim(inv_t),
                           output_ndim |-> output_ndim(inv_t)])
    /\ UNCHANGED <<subject, gvars, tvars>>

NextRoundTrip == CheckInverse

SpecRoundTrip == InitRoundTrip /\ [][NextRoundTrip]_vars

\* C11: when T.invert() is Some(U), U maps T's output space back to T's input space
\* and applying T and then U to a point gives the point back
C11_InverseRoundTrip ==
    outcome.some =>
        /\ outcome.val.input_ndim = output_ndim(subject.t)
        /\ outcome.val.output_ndim = input_ndim(subject.t)
        /\ outcome.val.inverted = subject.pt

\* ------------------------------------------------------------------------
\* Identity detection (SpecIdentity)
\* ------------------------------------------------------------------------

Eye2 == Matrix(<<1, 0, 0, 1>>, 2)

\* transformations of every kind: identities in disguise and their near misses
IdentityCandidates ==
    { Identity(2), Identity(3),
      Translate(<<0, 0>>), Translate(<<0, 1>>),
      Scale(<<1, 1>>, <<1, 1>>), Scale(<<1, 2>>, <<1, 1>>),
      MapAxis(<<0, 1>>), MapAxis(<<1, 0>>), MapAxis(<<0, 2, 1>>),
      Affine(Eye2, <<0, 0>>), Affine(Eye2, <<0, 1>>),
      Affine(Matrix(<<1, 0, 0, 0, 1, 0>>, 3), <<0, 0>>),
      Affine(Matrix(<<1, 0, 0, 1, 0, 0>>, 2), <<0, 0, 0>>),
      Rotation(Eye2), Quarter,
      BijectionTryNew(Identity(2), Translate(<<0, 0>>)).val,
      BijectionTryNew(Identity(2), Translate(<<1, 2>>)).val,
      BijectionTryNew(Translate(<<1, 2>>), Identity(2)).val,
      build(<<Identity(2), Scale(<<1, 1>>, <<1, 1>>), Rotation(Eye2)>>).val,
      build(<<Identity(2), MapAxis(<<1, 0>>)>>).val,
      build(<<MapAxis(<<1, 0>>), MapAxis(<<1, 0>>)>>).val }

InitIdentity ==
    /\ GraphInit
    /\ NoBatch
    /\ \E t \in IdentityCandidates : \E pt \in RoundTripPoints(input_ndim(t)) :
          subject = [t |-> t, pt |-> pt]
    /\ outcome = None

\* t.is_identity(), t applied to the point, and the point under the transformation
\* add_edge stores for t (graph.rs:133-138)
CheckIdentity ==
    /\ outcome = None
    /\ LET t == subject.t
           stored == IF is_identity(t) THEN Identity(input_ndim(t)) ELSE t
       IN outcome' = Some([is_identity |-> is_identity(t),
                           transformed |-> point_transform(t, subject.pt),
                           stored |-> point_transform(stored, subject.pt)])
    /\ UNCHANGED <<subject, gvars, tvars>>

NextIdentity == CheckIdentity

SpecIdentity == InitIdentity /\ [][NextIdentity]_vars

\* C12: a transformation whose is_identity() is true has as many output as input
\* dimensions and maps every point to itself, so the Identity that replaces it gives
\* the same result
C12_IsIdentitySound ==
    (outcome.some /\ outcome.val.is_identity) =>
        /\ input_ndim(subject.t) = output_ndim(subject.t)
        /\ outcome.val.transformed = subject.pt
        /\ outcome.val.stored = outcome.val.transformed

\* is_identity() was true of a sequence whose stages are identities of other kinds
C12_Witness ==
    /\ outcome.some
    /\ outcome.val.is_identity
    /\ subject.t.type = "Sequence"
    /\ \E k \in 1..Len(subject.t.transforms) : subject.t.transforms[k].type # "Identity"

\* ------------------------------------------------------------------------
\* ByDimensionBuilder (SpecBuilder)
\* ------------------------------------------------------------------------

\* the widest space a builder is made for, and the most add_transform calls on it
MaxNdim == 3
MaxAdds == 2

\* ByDimensionBuilder::new
ByDimensionBuilderNew(in_ndim, out_ndim) ==
    [in_dims |-> 0..(in_ndim - 1), out_dims |-> 0..(out_ndim - 1), sub_transforms |-> <<>>]

\* for &d in dims { if !set.remove(&d) { return Err } }: the set as the loop leaves it
RECURSIVE RemoveEach(_, _)
RemoveEach(set, dims) ==
    IF dims = <<>> THEN [ok |-> TRUE, set |-> set]
    ELSE IF Head(dims) \notin set THEN [ok |-> FALSE, set |-> set]
         ELSE RemoveEach(set \ {Head(dims)}, Tail(dims))

\* ByDimensionBuilder::add_arced: [ok, builder afterwards]
ByDimAddArced(b, transform, in_dims, out_dims) ==
    LET outs == RemoveEach(b.out_dims, out_dims)
    IN IF ~outs.ok THEN [ok |-> FALSE, builder |-> [b EXCEPT !.out_dims = outs.set]]
       ELSE LET ins == RemoveEach(b.in_dims, in_dims)
            IN IF ~ins.ok
               THEN [ok |-> FALSE,
                     builder |-> [b EXCEPT !.out_dims = outs.set, !.in_dims = ins.set]]
               ELSE [ok |-> TRUE,
                     builder |-> [in_dims |-> ins.set, out_dims |-> outs.set,
                                  sub_transforms |->
                                      Append(b.sub_transforms,
                                             SubTransform(transform, in_dims, out_dims))]]

\* BTreeSet::iter().collect(): the elements in ascending order
RECURSIVE Ascending(_)
Ascending(set) ==
    IF set = {} THEN <<>>
    ELSE LET least == CHOOSE x \in set : \A y \in set : x <= y
         IN <<least>> \o Ascending(set \ {least})

\* ByDimensionBuilder::fill_missing_dims: [ok, builder afterwards]
fill_missing_dims(b) ==
    IF Cardinality(b.in_dims) # Cardinality(b.out_dims) THEN [ok |-> FALSE, builder |-> b]
    ELSE IF Cardinality(b.in_dims) > 0
         THEN [ok |-> TRUE,
               builder |-> [b EXCEPT !.sub_transforms =
                                Append(@, SubTransform(Identity(Cardinality(b.in_dims)),
                                                       Ascending(b.in_dims),
                                                       Ascending(b.out_dims)))]]
         ELSE [ok |-> TRUE, builder |-> b]

\* ByDimensionBuilder::build
ByDimBuild(b) ==
    LET filled == fill_missing_dims(b)
    IN IF ~filled.ok THEN Err ELSE Ok(ByDimension(filled.builder.sub_transforms))

\* the dims a caller may pass: one or two indices, repeated and out-of-range ones included
DimLists == UNION {[1..n -> 0..(MaxNdim - 1)] : n \in 1..2}

\* a builder for in_ndim -> out_ndim, the calls made on it so far, and the last call's result
InitBuilder ==
    /\ GraphInit
    /\ NoBatch
    /\ \E in_ndim, out_ndim \in 2..MaxNdim :
          subject = [builder |-> ByDimensionBuilderNew(in_ndim, out_ndim),
                     in_ndim |-> in_ndim, out_ndim |-> out_ndim,
                     calls |-> 0, failed |-> 0]
    /\ outcome = None

\* builder.add_transform(Translate of as many dimensions as in_dims, in_dims, out_dims)
AddTransform(in_dims, out_dims) ==
    /\ outcome = None
    /\ subject.calls < MaxAdds
    /\ LET r == ByDimAddArced(subject.builder, Translate(Fill(Len(in_dims), 1)),
                              in_dims, out_dims)
       IN subject' = [subject EXCEPT !.builder = r.builder,
                                     !.calls = @ + 1,
                                     !.failed = IF r.ok THEN @ ELSE @ + 1]
    /\ UNCHANGED <<outcome, gvars, tvars>>

Build ==
    /\ outcome = None
    /\ outcome' = Some(ByDimBuild(subject.builder))
    /\ UNCHANGED <<subject, gvars, tvars>>

NextBuilder ==
    \/ \E in_dims, out_dims \in DimLists : AddTransform(in_dims, out_dims)
    \/ Build

SpecBuilder == InitBuilder /\ [][NextBuilder]_vars

\* the dims of the sub-entries, one after another
RECURSIVE AllDims(_, _)
AllDims(subs, f) ==
    IF subs = <<>> THEN <<>>
    ELSE (IF f = "in" THEN Head(subs).in_dims ELSE Head(subs).out_dims)
         \o AllDims(Tail(subs), f)

\* every index of 0..n-1 occurs exactly once
ExactCover(dims, n) ==
    /\ Len(dims) = n
    /\ {dims[k] : k \in 1..Len(dims)} = 0..(n - 1)

\* C13: whatever add_transform calls came before (failed ones included), the
\* ByDimension that build returns has in_dims that are pairwise disjoint and cover
\* 0..in_ndim-1, and out_dims that are pairwise disjoint and cover 0..out_ndim-1
C13_BuiltCoversEveryDim ==
    (outcome.some /\ outcome.val.ok) =>
        /\ ExactCover(AllDims(outcome.val.val.subs, "in"), subject.in_ndim)
        /\ ExactCover(AllDims(outcome.val.val.subs, "out"), subject.out_ndim)

\* ------------------------------------------------------------------------
\* ByDimension's column form and the caller's slice of columns (SpecLayout)
\* ------------------------------------------------------------------------

\* the most dimensions of a ByDimension whose layout is followed
LayoutNdim == 4

\* which of the caller's columns lies at each position of bufs when
\* ByDimension::column_transform_into returns: `order` follows every bufs.swap of
\* the loop, and the restoring swaps are applied to it as they are to bufs
ByDimColumnOrder(t, columns, bufs) ==
    LET st == ByDimColLoop(t.subs, columns,
                [bufs |-> bufs, order |-> [k \in 1..Len(bufs) |-> k - 1],
                 swaps |-> <<>>], 0)
    IN UndoSwaps(st.swaps, st.order)

\* every order of the dimensions 0..n-1
DimOrders(n) == {p \in [1..n -> 0..(n - 1)] : \A i, j \in 1..n : p[i] = p[j] => i = j}

\* a ByDimension of n dimensions as by_dimension.rs's make_transform builds one:
\* the input dimensions are cut into runs after the positions in cuts, and the
\* translation on each run writes to the output dimensions that p assigns to it
Layout(n, p, cuts) ==
    LET starts == Ascending({0} \cup cuts)
        stop(k) == IF k = Len(starts) THEN n ELSE starts[k + 1]
        entry(k) ==
            LET a == starts[k]
                w == stop(k) - a
            IN SubTransform(Translate([j \in 1..w |-> 10 * (a + j)]),
                            [j \in 1..w |-> a + j - 1],
                            [j \in 1..w |-> p[a + j]])
    IN ByDimension([k \in 1..Len(starts) |-> entry(k)])

\* n columns of two samples, no two alike
LayoutColumns(n) == [d \in 1..n |-> <<d, d + 5>>]

InitLayout ==
    /\ GraphInit
    /\ NoBatch
    /\ \E n \in 2..LayoutNdim : \E p \in DimOrders(n) : \E cuts \in SUBSET (1..(n - 1)) :
          subject = [t |-> Layout(n, p, cuts), columns |-> LayoutColumns(n)]
    /\ outcome = None

\* t.column_transform_into(columns, bufs) on fresh output columns
RunColumns ==
    /\ outcome = None
    /\ LET bufs == Fill(output_ndim(subject.t), Fill(Len(subject.columns[1]), NAN))
       IN outcome' = Some([bufs |-> column_transform_into(subject.t, subject.columns, bufs),
                           order |-> ByDimColumnOrder(subject.t, subject.columns, bufs)])
    /\ UNCHANGED <<subject, gvars, tvars>>

NextLayout == RunColumns

SpecLayout == InitLayout /\ [][NextLayout]_vars

\* C14: when ByDimension's column form has returned, position k of the caller's
\* slice holds the column of output dimension k again, whatever output dimensions
\* the sub-entries were given, and the column of dimension out_dims[j] holds the
\* j-th output of the sub-transform run on the columns its in_dims name
C14_LayoutRestored ==
    outcome.some =>
        /\ outcome.val.order = [k \in 1..output_ndim(subject.t) |-> k - 1]
        /\ \A s \in 1..Len(subject.t.subs) :
              LET bt == subject.t.subs[s]
                  input_cols == [k \in 1..Len(bt.in_dims) |-> subject.columns[bt.in_dims[k] + 1]]
                  written == column_transform(bt.transform, input_cols)
              IN \A j \in 1..Len(bt.out_dims) :
                    outcome.val.bufs[bt.out_dims[j] + 1] = written[j]

\* the column form has returned for a ByDimension of several sub-entries whose
\* output dimensions are neither in place nor a single exchange, so that the
\* swaps of one sub-entry move columns a later one asks for
C14_Witness ==
    /\ outcome.some
    /\ Len(subject.t.subs) >= 2
    /\ output_ndim(subject.t) >= 3
    /\ \A s \in 1..Len(subject.t.subs) :
          subject.t.subs[s].in_dims # subject.t.subs[s].out_dims
    /\ \E s \in 1..Len(subject.t.subs) : Len(subject.t.subs[s].out_dims) >= 2

\* ------------------------------------------------------------------------
\* The Sequences the public API hands out (SpecSeq)
\* ------------------------------------------------------------------------

\* the most stages added to one builder, and the most edges of the graph a path is
\* looked up in
MaxStages == 3
MaxEdgesSeq == 2

Narrow == Affine(Matrix(<<1, 1>>, 2), <<0>>)

\* stages of one, two and three dimensions, narrowing and widening ones, identities
\* and identities in disguise among them
SeqStages ==
    { Identity(1), Identity(2), Translate(<<0, 0>>), Translate(<<1, -2>>),
      Scale(<<2>>, <<1>>), MapAxis(<<1, 0>>), MapAxis(<<2, 0, 1>>),
      Bijection(Translate(<<4, 5>>), Translate(<<-4, -5>>)),
      Narrow, Widen, Flatten }

\* the transformations the edges of the graph carry
SeqEdgeTransforms == {Translate(<<1, -2>>), Identity(2), Widen, Flatten, MapAxis(<<2, 0, 1>>)}

\* either a SequenceBuilder is filled and built, or a graph is filled and queried
InitSeq ==
    /\ GraphInit
    /\ NoBatch
    /\ \E route \in {"builder", "graph"} :
          subject = [route |-> route, builder |-> <<>>, last |-> None]
    /\ outcome = None

\* builder.add_arced(t): an Err leaves the builder as it was
AddStage(t) ==
    /\ subject.route = "builder"
    /\ outcome = None
    /\ Len(subject.builder) < MaxStages
    /\ LET r == add_arced(subject.builder, t)
       IN subject' = [subject EXCEPT !.builder = IF r.ok THEN r.val ELSE @,
                                     !.last = Some([t |-> t, before |-> subject.builder,
                                                    ok |-> r.ok])]
    /\ UNCHANGED <<outcome, gvars, tvars>>

\* builder.build()
BuildSequence ==
    /\ subject.route = "builder"
    /\ outcome = None
    /\ outcome' = Some([call |-> "build", ret |-> build(subject.builder)])
    /\ UNCHANGED <<subject, gvars, tvars>>

\* builder.build_any()
BuildAny ==
    /\ subject.route = "builder"
    /\ outcome = None
    /\ outcome' = Some([call |-> "build_any",
                        ret |-> LET r == build_any(subject.builder)
                                IN IF r.ok THEN Some(r.val) ELSE None])
    /\ UNCHANGED <<subject, gvars, tvars>>

\* sequence.invert() on what the builder returned
InvertBuilt ==
    /\ outcome.some
    /\ outcome.val.call # "invert"
    /\ outcome.val.ret.some
    /\ outcome.val.ret.val.type = "Sequence"
    /\ outcome' = Some([call |-> "invert", ret |-> invert(outcome.val.ret.val)])
    /\ UNCHANGED <<subject, gvars, tvars>>

NextSeq ==
    \/ \E t \in SeqStages : AddStage(t)
    \/ BuildSequence
    \/ BuildAny
    \/ InvertBuilt
    \/ \E src_s, tgt_s \in Labels, transform \in SeqEdgeTransforms, with_inverse \in BOOLEAN :
          /\ subject.route = "graph"
          /\ src_s # tgt_s
          /\ AddEdge(src_s, tgt_s, transform, DEFAULT_COST, with_inverse)
          /\ NumEdges(graph') <= MaxEdgesSeq
    \/ \E from, to \in Labels :
          /\ subject.route = "graph"
          /\ FindPath(from, to)

SpecSeq == InitSeq /\ [][NextSeq]_vars

\* the widest buffer prefix Sequence::transform_into_inner slices: buf1[..output_ndim]
\* for every stage but the last, buf0[..input_ndim] for every stage but the first
WidestSlice(ts) ==
    LET widths == {output_ndim(ts[i]) : i \in 1..(Len(ts) - 1)}
                      \cup {input_ndim(ts[i]) : i \in 2..Len(ts)}
    IN CHOOSE w \in widths : \A w2 \in widths : w2 <= w

\* a Sequence of at least two stages that fit each other, with buffers wide enough
SequenceWellFormed(t) ==
    t.type = "Sequence" =>
        /\ Len(t.transforms) >= 2
        /\ \A i \in 1..(Len(t.transforms) - 1) :
              output_ndim(t.transforms[i]) = input_ndim(t.transforms[i + 1])
        /\ t.max_inner_ndim >= WidestSlice(t.transforms)

\* C15: every Sequence that build, build_any, invert or find_path returns has at
\* least two stages, each stage's output_ndim is the next stage's input_ndim, and
\* max_inner_ndim covers every slice taken of the intermediate buffers; add_arced
\* returns Err exactly for a stage whose input_ndim differs from the previous
\* stage's output_ndim and then leaves the builder as it was
C15_SequencesWellFormed ==
    /\ (outcome.some /\ outcome.val.ret.some) =>
          /\ SequenceWellFormed(outcome.val.ret.val)
          /\ outcome.val.call \in {"build", "invert"} => outcome.val.ret.val.type = "Sequence"
    /\ \A from, to \in Labels :
          FindPathRet(from, to).some => SequenceWellFormed(FindPathRet(from, to).val)
    /\ (subject.route = "builder" /\ subject.last.some) =>
          LET l == subject.last.val
              fits == l.before = <<>> \/ input_ndim(l.t) = output_ndim(l.before[Len(l.before)])
          IN /\ l.ok = fits
             /\ ~l.ok => subject.builder = l.before

\* build has returned a Sequence of stages whose widths differ, after the builder
\* had turned a stage down
C15_Witness ==
    /\ outcome.some
    /\ outcome.val.call = "build"
    /\ outcome.val.ret.some
    /\ \A i \in 1..Len(outcome.val.ret.val.transforms) :
          input_ndim(outcome.val.ret.val.transforms[i])
              # output_ndim(outcome.val.ret.val.transforms[i])
    /\ subject.last.some
    /\ ~subject.last.val.ok

\* every added stage applied one after the other, identities included
RECURSIVE ApplyStages(_, _)
ApplyStages(ts, pt) ==
    IF ts = <<>> THEN pt ELSE ApplyStages(Tail(ts), point_transform(Head(ts), pt))

\* C16: build_any returns an error only for a builder without stages; otherwise an
\* Identity of the chain's dimensionality when every stage is an identity, the one
\* stage that is not an identity when there is exactly one, and else a Sequence of
\* the stages that are not identities in the order they were added; the result has
\* the input_ndim, the output_ndim and the point-wise behaviour of all added
\* stages applied in order
C16_BuildAnyFaithful ==
    (outcome.some /\ outcome.val.call = "build_any") =>
        LET b == subject.builder
            r == outcome.val.ret
            others == SelectSeq(b, LAMBDA t : ~is_identity(t))
        IN /\ r.some <=> b # <<>>
           /\ r.some =>
                 /\ Len(others) = 0 => r.val = Identity(input_ndim(b[1]))
                 /\ Len(others) = 1 => r.val = others[1]
                 /\ Len(others) >= 2 =>
                       r.val.type = "Sequence" /\ r.val.transforms = others
                 /\ input_ndim(r.val) = input_ndim(b[1])
                 /\ output_ndim(r.val) = output_ndim(b[Len(b)])
                 /\ \A pt \in SamplePoints(input_ndim(b[1])) :
                       point_transform(r.val, pt) = ApplyStages(b, pt)

\* build_any has returned a Sequence for a builder that also held an identity
C16_Witness ==
    /\ outcome.some
    /\ outcome.val.call = "build_any"
    /\ outcome.val.ret.some
    /\ outcome.val.ret.val.type = "Sequence"
    /\ Len(outcome.val.ret.val.transforms) < Len(subject.builder)

\* ------------------------------------------------------------------------
\* MapAxis::try_new (SpecMapAxis)
\* ------------------------------------------------------------------------

\* the longest map tried; its entries range over 0..MapLen
MapLen == 3

\* a constructor that only asks for the largest entry to be len - 1
MapAxisTryNewAnyRepeat(map) ==
    LET visited == {map[i] : i \in 1..Len(map)}
    IN IF visited # {} /\ (CHOOSE mx \in visited : \A v \in visited : v <= mx) # Len(map) - 1
       THEN Err
       ELSE Ok(MapAxis(map))

\* MapAxis::try_new
MapAxisTryNew(map) ==
    LET visited == {map[i] : i \in 1..Len(map)}
    IN IF Cardinality(visited) # Len(map) THEN Err
       ELSE IF visited # {}
               /\ (CHOOSE mx \in visited : \A v \in visited : v <= mx) # Len(map) - 1
       THEN Err
       ELSE Ok(MapAxis(map))

\* a map of up to MapLen entries and a point of as many coordinates, no two alike
InitMapAxis ==
    /\ GraphInit
    /\ NoBatch
    /\ \E n \in 0..MapLen : \E map \in [1..n -> 0..MapLen] : \E k \in {0, 1} :
          subject = [map |-> map, pt |-> [d \in 1..n |-> 10 * d + k]]
    /\ outcome = None

\* MapAxis::try_new(map), and for an accepted map its inverse and the point taken
\* through the map and back
TryNewMapAxis ==
    /\ outcome = None
    /\ LET r == MapAxisTryNew(subject.map)
       IN outcome' =
            IF ~r.ok THEN Some([ok |-> FALSE])
            ELSE Some([ok |-> TRUE,
                       inverse |-> invert(r.val).val,
                       round_trip |-> point_transform(invert(r.val).val,
                                                      point_transform(r.val, subject.pt))])
    /\ UNCHANGED <<subject, gvars, tvars>>

NextMapAxis == TryNewMapAxis

SpecMapAxis == InitMapAxis /\ [][NextMapAxis]_vars

\* every index of 0..len-1 occurs exactly once in map
IsPermutation(map) ==
    /\ \A i, j \in 1..Len(map) : map[i] = map[j] => i = j
    /\ \A i \in 1..Len(map) : map[i] < Len(map)

\* C17: MapAxis::try_new(map) succeeds exactly when map is a permutation of
\* 0..len(map); for an accepted map, invert() is the inverse permutation, and
\* applying the inverse after the map returns the point unchanged
C17_PermutationsOnly ==
    outcome.some =>
        /\ outcome.val.ok <=> IsPermutation(subject.map)
        /\ outcome.val.ok =>
              /\ outcome.val.inverse.type = "MapAxis"
              /\ \A i \in 1..Len(subject.map) :
                    outcome.val.inverse.map[subject.map[i] + 1] = i - 1
              /\ outcome.val.round_trip = subject.pt

\* a permutation of three dimensions that is not its own inverse was accepted
C17_Witness ==
    /\ outcome.some
    /\ outcome.val.ok
    /\ Len(subject.map) = 3
    /\ outcome.val.inverse.map # subject.map

\* ------------------------------------------------------------------------
\* Matrix::try_new_colmaj (SpecColmaj)
\* ------------------------------------------------------------------------

\* the longest data vector
MaxData == 6

\* Matrix::try_new
MatrixTryNew(data, ncols) ==
    IF Len(data) % ncols # 0 THEN Err ELSE Ok(Matrix(data, ncols))

\* the loop of Matrix::try_new_colmaj (matrix.rs:75-82): data after the swaps
RECURSIVE ColmajLoop(_, _, _, _)
ColmajLoop(data, nrows, ncols, f_idx) ==
    IF f_idx >= Len(data) THEN data
    ELSE LET r == f_idx % nrows
             c == f_idx \div nrows
             new_idx == r * ncols + c
         IN ColmajLoop(IF new_idx > f_idx THEN Swap(data, f_idx, new_idx) ELSE data,
                       nrows, ncols, f_idx + 1)

\* Matrix::try_new_colmaj
MatrixTryNewColmaj(data, nrows) ==
    IF Len(data) % nrows # 0 THEN Err
    ELSE LET ncols == Len(data) \div nrows
         IN Ok([data |-> ColmajLoop(data, nrows, ncols, 0), nrows |-> nrows, ncols |-> ncols])

\* a column-major data vector of distinct entries, and a number of rows
InitColmaj ==
    /\ GraphInit
    /\ NoBatch
    /\ \E len \in 1..MaxData : \E nrows \in 1..len : \E a \in {-2, 1, 3} :
          subject = [data |-> [k \in 1..len |-> a * k], nrows |-> nrows]
    /\ outcome = None

TryNewColmaj ==
    /\ outcome = None
    /\ outcome' = Some(MatrixTryNewColmaj(subject.data, subject.nrows))
    /\ UNCHANGED <<subject, gvars, tvars>>

NextColmaj == TryNewColmaj

SpecColmaj == InitColmaj /\ [][NextColmaj]_vars

\* the entries of the column-major vector listed row by row
RowMajorListing(data, nrows) ==
    LET ncols == Len(data) \div nrows
    IN [k \in 1..Len(data) |-> data[((k - 1) % ncols) * nrows + ((k - 1) \div ncols) + 1]]

\* C18: for every column-major data vector and every nrows dividing its length,
\* try_new_colmaj gives the row-major matrix whose element (r, c) is
\* data[c * nrows + r]: the matrix try_new builds from the row-major listing
C18_ColmajIsTranspose ==
    (outcome.some /\ Len(subject.data) % subject.nrows = 0) =>
        /\ outcome.val.ok
        /\ LET M == outcome.val.val
           IN /\ M.nrows = subject.nrows
              /\ \A r \in 0..(M.nrows - 1), c \in 0..(M.ncols - 1) :
                    M.data[r * M.ncols + c + 1] = subject.data[c * subject.nrows + r + 1]
              /\ outcome.val =
                    MatrixTryNew(RowMajorListing(subject.data, subject.nrows), M.ncols)

\* ------------------------------------------------------------------------
\* Rotation::try_new (SpecRotation)
\* ------------------------------------------------------------------------

\* the largest square matrix tried
RotDim == 4

\* Matrix::get(row, col), unwrapped
MatGet(M, row, col) == M.data[row * M.ncols + col + 1]

\* rectify_idx: every leading entry of skipped that is <= idx moves idx on by one,
\* and the first larger entry ends the loop
RECURSIVE rectify_idx(_, _)
rectify_idx(idx, skipped) ==
    IF skipped = <<>> THEN idx
    ELSE IF Head(skipped) <= idx THEN rectify_idx(idx + 1, Tail(skipped))
         ELSE idx

\* Matrix::get_submat, unwrapped
get_submat(M, row, col, skipped_rows, skipped_cols) ==
    MatGet(M, rectify_idx(row, skipped_rows), rectify_idx(col, skipped_cols))

RECURSIVE determinant_skipping(_, _, _)
RECURSIVE LaplaceLoop(_, _, _, _, _, _, _)

\* the loop `for c in 0..self.ncols()` of _determinant_skipping (matrix.rs:230-241);
\* skipped_rows already holds first_row
LaplaceLoop(M, first_row, skipped_rows, skipped_cols, c, rel_col, det) ==
    IF c >= M.ncols THEN det
    ELSE IF \E k \in 1..Len(skipped_cols) : skipped_cols[k] = c
         THEN LaplaceLoop(M, first_row, skipped_rows, skipped_cols, c + 1, rel_col, det)
         ELSE LET sign == IF rel_col % 2 = 0 THEN 1 ELSE -1
                  minor == determinant_skipping(M, skipped_rows, Append(skipped_cols, c))
              IN LaplaceLoop(M, first_row, skipped_rows, skipped_cols, c + 1, rel_col + 1,
                             det + sign * MatGet(M, first_row, c) * minor)

\* Matrix::_determinant_skipping
determinant_skipping(M, skipped_rows, skipped_cols) ==
    LET n == M.nrows - Len(skipped_cols)
    IN IF n = 1 THEN get_submat(M, 0, 0, skipped_rows, skipped_cols)
       ELSE IF n = 2
       THEN get_submat(M, 0, 0, skipped_rows, skipped_cols)
                * get_submat(M, 1, 1, skipped_rows, skipped_cols)
            - get_submat(M, 0, 1, skipped_rows, skipped_cols)
                * get_submat(M, 1, 0, skipped_rows, skipped_cols)
       ELSE LET first_row == rectify_idx(0, skipped_rows)
            IN LaplaceLoop(M, first_row, Append(skipped_rows, first_row), skipped_cols,
                           0, 0, 0)

\* Matrix::determinant
determinant(M) ==
    IF M.nrows # M.ncols THEN Err
    ELSE IF M.nrows = 0 THEN Ok(1)
    ELSE Ok(determinant_skipping(M, <<>>, <<>>))

\* Matrix::rows: the r-th chunk of ncols entries
MatRow(M, r) == SubSeq(M.data, r * M.ncols + 1, (r + 1) * M.ncols)

\* dot(v1, v2)
RECURSIVE dot(_, _)
dot(v1, v2) == IF v1 = <<>> THEN 0 ELSE Head(v1) * Head(v2) + dot(Tail(v1), Tail(v2))

\* Matrix::has_orthonormal_rows on whole numbers: magnitude(row) - 1.0 > 1e-10
\* exactly when the sum of squares exceeds 1, dp.abs() > 1e-10 exactly when dp # 0
has_orthonormal_rows(M) ==
    \A r \in 0..(M.nrows - 1) :
        /\ ~(dot(MatRow(M, r), MatRow(M, r)) > 1)
        /\ \A prev \in 0..(r - 1) : dot(MatRow(M, r), MatRow(M, prev)) = 0

\* Rotation::try_new; (det - 1.0).abs() > EPSILON exactly when det # 1
RotationTryNew(M) ==
    IF M.nrows # M.ncols THEN Err
    ELSE IF ~has_orthonormal_rows(M) THEN Err
    ELSE IF determinant(M).val # 1 THEN Err
    ELSE Ok(Rotation(M))

\* the matrix with sg[r] in column p[r] of row r: orthonormal, of determinant 1 or -1
SignedPermutation(n, p, sg) ==
    Matrix([k \in 1..(n * n) |->
               LET r == (k - 1) \div n
                   c == (k - 1) % n
               IN IF p[r + 1] = c THEN sg[r + 1] ELSE 0], n)

\* the identity of n dimensions with the entry (r, c) set to v: a row that is too
\* short, too long, or not orthogonal to another
Dented(n, r, c, v) ==
    Matrix([k \in 1..(n * n) |->
               IF k - 1 = r * n + c THEN v
               ELSE IF (k - 1) \div n = (k - 1) % n THEN 1 ELSE 0], n)

RotationCandidates ==
    UNION {{SignedPermutation(n, p, sg) : p \in DimOrders(n), sg \in [1..n -> {-1, 1}]}
              : n \in 1..RotDim}
    \cup UNION {{Dented(n, r, c, v) : r, c \in 0..(n - 1), v \in {0, 1, 2}} : n \in 2..RotDim}
    \cup {Matrix(<<1, 0, 0, 0, 1, 0>>, 3), Matrix(<<1, 0, 0, 1, 0, 0>>, 2)}

InitRotation ==
    /\ GraphInit
    /\ NoBatch
    /\ subject \in RotationCandidates
    /\ outcome = None

TryNewRotation ==
    /\ outcome = None
    /\ outcome' = Some(RotationTryNew(subject))
    /\ UNCHANGED <<subject, gvars, tvars>>

NextRotation == TryNewRotation

SpecRotation == InitRotation /\ [][NextRotation]_vars

\* the number of pairs of rows that p puts out of order
Inversions(p) == Cardinality({ij \in (1..Len(p)) \X (1..Len(p)) :
                                 ij[1] < ij[2] /\ p[ij[1]] > p[ij[2]]})

\* the product of the entries that p picks, one in each row
RECURSIVE PickedProduct(_, _, _)
PickedProduct(M, p, r) ==
    IF r >= M.nrows THEN 1 ELSE MatGet(M, r, p[r + 1]) * PickedProduct(M, p, r + 1)

\* the determinant by Leibniz's formula
RECURSIVE LeibnizSum(_, _)
LeibnizSum(M, perms) ==
    IF perms = {} THEN 0
    ELSE LET p == CHOOSE q \in perms : TRUE
         IN (IF Inversions(p) % 2 = 0 THEN 1 ELSE -1) * PickedProduct(M, p, 0)
            + LeibnizSum(M, perms \ {p})

\* square, with rows of length 1 that are orthogonal to each other, determinant +1
ProperRotation(M) ==
    /\ M.nrows = M.ncols
    /\ \A r, q \in 0..(M.nrows - 1) :
          dot(MatRow(M, r), MatRow(M, q)) = (IF r = q THEN 1 ELSE 0)
    /\ LeibnizSum(M, DimOrders(M.nrows)) = 1

\* C19: Rotation::try_new(M) succeeds exactly when M is square, has orthonormal
\* rows and has determinant +1, for matrices of every dimension
C19_ProperRotationsOnly ==
    outcome.some => (outcome.val.ok <=> ProperRotation(subject))

\* ------------------------------------------------------------------------
\* Const: an array extended by a default value (SpecConst)
\* ------------------------------------------------------------------------

\* the longest batch of samples
MaxSamples == 3

\* the answer of the inner array: one more than the row-major offset of coord, so
\* that no element equals Default::default()
RECURSIVE Ravel(_, _, _)
Ravel(coord, extents, acc) ==
    IF coord = <<>> THEN acc
    ELSE Ravel(Tail(coord), Tail(extents), acc * Head(extents) + Head(coord))

get_unchecked(c, coord) == 1 + Ravel(coord, c.extents, 0)

\* a bounds test that lets negative coordinates through
unbound_to_bound_elem_upper(c, max) == IF c >= max THEN None ELSE Some(c)

\* unbound_to_bound_elem
unbound_to_bound_elem(c, max) == IF c < 0 \/ c >= max THEN None ELSE Some(c)

\* unbound_to_bound_iter: [ok, buf]; buf keeps what was written before a failure
RECURSIVE unbound_to_bound_iter(_, _, _, _)
unbound_to_bound_iter(coord, extents, buf, k) ==
    IF k > Len(coord) \/ k > Len(extents) \/ k > Len(buf) THEN [ok |-> TRUE, buf |-> buf]
    ELSE LET c2 == unbound_to_bound_elem(coord[k], extents[k])
         IN IF ~c2.some THEN [ok |-> FALSE, buf |-> buf]
            ELSE unbound_to_bound_iter(coord, extents, [buf EXCEPT ![k] = c2.val], k + 1)

\* stands for usize::MAX, the filler of the scratch coordinates: a value beyond
\* every extent
USIZE_MAX == 2147483647

\* Const::get: [val, queried], queried being the coordinates the inner array was
\* asked for
ConstGet(c, coord) ==
    LET r == unbound_to_bound_iter(coord, c.extents, Fill(Len(coord), USIZE_MAX), 1)
    IN IF r.ok THEN [val |-> get_unchecked(c, r.buf), queried |-> <<r.buf>>]
       ELSE [val |-> c.constant, queried |-> <<>>]

\* the first loop of Const::bulk_get_into (value.rs:158-166)
RECURSIVE ConstBulkSplit(_, _, _, _)
ConstBulkSplit(c, coords, st, idx) ==
    IF idx >= Len(coords) \/ idx >= Len(st.buf) THEN st
    ELSE LET r == unbound_to_bound_iter(coords[idx + 1], c.extents,
                                        Fill(Len(coords[idx + 1]), USIZE_MAX), 1)
         IN ConstBulkSplit(c, coords,
                IF r.ok
                THEN [st EXCEPT !.new_coords = Append(@, r.buf), !.indices = Append(@, idx)]
                ELSE [st EXCEPT !.buf[idx + 1] = c.constant],
                idx + 1)

\* BoundedIndex::bulk_get_into_unchecked
bulk_get_into_unchecked(c, coord, buf) ==
    [i \in 1..Len(buf) |-> IF i <= Len(coord) THEN get_unchecked(c, coord[i]) ELSE buf[i]]

\* for (idx, val) in indices.zip(out_buf): buf[idx] = val
RECURSIVE ScatterByIndex(_, _, _)
ScatterByIndex(indices, out_buf, buf) ==
    IF indices = <<>> \/ out_buf = <<>> THEN buf
    ELSE ScatterByIndex(Tail(indices), Tail(out_buf),
                        [buf EXCEPT ![Head(indices) + 1] = Head(out_buf)])

\* Const::bulk_get_into: [buf, queried]
ConstBulkGetInto(c, coords, buf) ==
    LET st == ConstBulkSplit(c, coords,
                             [buf |-> buf, new_coords |-> <<>>, indices |-> <<>>], 0)
    IN IF st.new_coords = <<>> THEN [buf |-> st.buf, queried |-> <<>>]
       ELSE IF Len(st.new_coords) = Len(coords)
       THEN [buf |-> bulk_get_into_unchecked(c, st.new_coords, st.buf),
             queried |-> st.new_coords]
       ELSE [buf |-> ScatterByIndex(st.indices,
                        bulk_get_into_unchecked(c, st.new_coords,
                                                Fill(Len(st.new_coords), 0)),
                        st.buf),
             queried |-> st.new_coords]

\* the first loop of Const::column_get_into (value.rs:190-204)
RECURSIVE ConstColumnSplit(_, _, _, _)
ConstColumnSplit(c, columns, st, idx) ==
    IF idx >= Len(columns[1]) \/ idx >= Len(st.buf) THEN st
    ELSE LET r == unbound_to_bound_iter([d \in 1..Len(columns) |-> columns[d][idx + 1]],
                                        c.extents, st.coord, 1)
         IN ConstColumnSplit(c, columns,
                IF r.ok
                THEN [st EXCEPT !.coord = r.buf,
                                !.new_cols = [d \in 1..Len(@) |->
                                                 IF d <= Len(r.buf) THEN Append(@[d], r.buf[d])
                                                 ELSE @[d]]]
                ELSE [st EXCEPT !.coord = r.buf,
                                !.buf[idx + 1] = c.constant,
                                !.skip[idx + 1] = TRUE],
                idx + 1)

\* BoundedIndex::column_get_into_unchecked: [buf, queried]
column_get_into_unchecked(c, columns, buf) ==
    LET coord(idx) == [d \in 1..Len(columns) |-> columns[d][idx]]
    IN [buf |-> [idx \in 1..Len(buf) |->
                    IF idx <= Len(columns[1]) THEN get_unchecked(c, coord(idx)) ELSE buf[idx]],
        queried |-> [idx \in 1..Len(columns[1]) |-> coord(idx)]]

\* the places of buf that were not skipped take the inner results in order
RECURSIVE ScatterUnskipped(_, _, _, _)
ScatterUnskipped(skip, inner_buf, buf, k) ==
    IF k > Len(skip) \/ k > Len(buf) \/ inner_buf = <<>> THEN buf
    ELSE IF skip[k] THEN ScatterUnskipped(skip, inner_buf, buf, k + 1)
         ELSE ScatterUnskipped(skip, Tail(inner_buf),
                               [buf EXCEPT ![k] = Head(inner_buf)], k + 1)

\* Const::column_get_into: [buf, queried]
ConstColumnGetInto(c, columns, buf) ==
    LET st == ConstColumnSplit(c, columns,
                  [buf |-> buf,
                   new_cols |-> Fill(Len(c.extents), <<>>),
                   skip |-> Fill(Len(columns[1]), FALSE),
                   coord |-> Fill(Len(columns), USIZE_MAX)], 0)
        unskipped == Len(st.new_cols[1])
    IN IF unskipped = 0 THEN [buf |-> st.buf, queried |-> <<>>]
       ELSE LET inner == column_get_into_unchecked(c, st.new_cols, Fill(unskipped, 0))
            IN [buf |-> ScatterUnskipped(st.skip, inner.buf, st.buf, 1),
                queried |-> inner.queried]

\* Const::new over an array of the given extents
ConstNew(extents, constant) == [constant |-> constant, extents |-> extents]

\* signed coordinates on both sides of every bound
SampleCoords == [1..2 -> -1..2]

InitConst ==
    /\ GraphInit
    /\ NoBatch
    /\ \E extents \in {<<2, 2>>, <<1, 3>>} :
          subject = [array |-> ConstNew(extents, -5), coords |-> <<>>]
    /\ outcome = None

\* one more sample joins the batch
PushCoord(coord) ==
    /\ outcome = None
    /\ Len(subject.coords) < MaxSamples
    /\ subject' = [subject EXCEPT !.coords = Append(@, coord)]
    /\ UNCHANGED <<outcome, gvars, tvars>>

\* array.bulk_get_into(coords, buf) on a buffer of stale values
BulkGet ==
    /\ outcome = None
    /\ subject.coords # <<>>
    /\ outcome' = Some(ConstBulkGetInto(subject.array, subject.coords,
                                        Fill(Len(subject.coords), NAN)))
    /\ UNCHANGED <<subject, gvars, tvars>>

\* array.column_get_into(columns, buf) on the same batch as columns
ColumnGet ==
    /\ outcome = None
    /\ subject.coords # <<>>
    /\ outcome' = Some(ConstColumnGetInto(subject.array, Transposed(subject.coords, 2),
                                          Fill(Len(subject.coords), NAN)))
    /\ UNCHANGED <<subject, gvars, tvars>>

NextConst ==
    \/ \E coord \in SampleCoords : PushCoord(coord)
    \/ BulkGet
    \/ ColumnGet

SpecConst == InitConst /\ [][NextConst]_vars

\* 0 <= c[d] < extents[d] for every dimension d
InBounds(coord, extents) ==
    \A d \in 1..Len(extents) : 0 <= coord[d] /\ coord[d] < extents[d]

\* C20: for every batch of signed coordinates, bulk_get_into and column_get_into
\* leave in buf[i] what get gives for sample i: the inner array's value when the
\* sample is within the extents in every dimension, the default otherwise; and
\* the inner array is never asked for a coordinate outside its extents
C20_BatchEqualsGet ==
    outcome.some =>
        /\ Len(outcome.val.buf) = Len(subject.coords)
        /\ \A i \in 1..Len(subject.coords) :
              /\ outcome.val.buf[i] = ConstGet(subject.array, subject.coords[i]).val
              /\ outcome.val.buf[i] =
                    IF InBounds(subject.coords[i], subject.array.extents)
                    THEN get_unchecked(subject.array, subject.coords[i])
                    ELSE subject.array.constant
              /\ ConstGet(subject.array, subject.coords[i]).queried =
                    IF InBounds(subject.coords[i], subject.array.extents)
                    THEN <<subject.coords[i]>>
                    ELSE <<>>
        /\ \A k \in 1..Len(outcome.val.queried) :
              InBounds(outcome.val.queried[k], subject.array.extents)

\* a batch whose first sample is out of bounds and whose later samples are a mix
\* of both has been looked up
C20_Witness ==
    /\ outcome.some
    /\ Len(subject.coords) = 3
    /\ ~InBounds(subject.coords[1], subject.array.extents)
    /\ InBounds(subject.coords[2], subject.array.extents)
    /\ Len(outcome.val.queried) = 1
    /\ subject.coords[2] # <<0, 0>>

\* ------------------------------------------------------------------------
\* Transformed: an array looked up through a transformation (SpecTransformed)
\* ------------------------------------------------------------------------

\* f.round_ties_even() as isize on whole numbers; NaN casts to 0
RoundTiesEven(f) == IF f = NAN THEN 0 ELSE f

\* NearestNeighbour::get over a Const
NearestGet(c, coord) ==
    ConstGet(c, [d \in 1..Len(coord) |-> RoundTiesEven(coord[d])]).val

\* NearestNeighbour::bulk_get_into over a Const: buf afterwards
NearestBulkGetInto(c, coords, buf) ==
    ConstBulkGetInto(c, [i \in 1..Len(coords) |->
                            [d \in 1..Len(coords[i]) |-> RoundTiesEven(coords[i][d])]],
                     buf).buf

\* NearestNeighbour::column_get_into over a Const: Done(buf), or Panic when
\* column_get_into_unchecked indexes col[idx] in a column that was never filled
NearestColumnGetInto(c, columns, buf) ==
    LET new_columns == [d \in 1..Len(columns) |->
                           [i \in 1..Len(columns[d]) |-> RoundTiesEven(columns[d][i])]]
        st == ConstColumnSplit(c, new_columns,
                  [buf |-> buf,
                   new_cols |-> Fill(Len(c.extents), <<>>),
                   skip |-> Fill(Len(new_columns[1]), FALSE),
                   coord |-> Fill(Len(new_columns), USIZE_MAX)], 0)
    IN IF \E d \in 1..Len(st.new_cols) : Len(st.new_cols[d]) < Len(st.new_cols[1])
       THEN Panic
       ELSE Done(ConstColumnGetInto(c, new_columns, buf).buf)

\* Transformed::try_new
TransformedTryNew(indexer, transform) ==
    IF output_ndim(transform) # Len(indexer.extents) THEN Err
    ELSE Ok([indexer |-> indexer, transform |-> transform])

\* Transformed::get
TransformedGet(tr, coord) == NearestGet(tr.indexer, point_transform(tr.transform, coord))

\* Transformed::bulk_get_into: [ret, scratch_ndim], scratch_ndim being the length
\* of the coordinates handed to the indexer
TransformedBulkGetInto(tr, coords, buf) ==
    LET ravelled == Fill(Len(coords), Fill(output_ndim(tr.transform), NAN))
        moved == bulk_transform_into(tr.transform, coords, ravelled)
    IN IF moved = Panic THEN [ret |-> Panic, scratch_ndim |-> output_ndim(tr.transform)]
       ELSE [ret |-> Done(NearestBulkGetInto(tr.indexer, moved.val, buf)),
             scratch_ndim |-> output_ndim(tr.transform)]

\* Transformed::column_get_into: [ret, scratch_ndim], scratch_ndim being the
\* number of columns handed to the indexer
TransformedColumnGetInto(tr, columns, buf) ==
    LET ravelled == Fill(Len(columns), Fill(Len(columns[1]), NAN))
        moved == column_transform_into(tr.transform, columns, ravelled)
    IN [ret |-> NearestColumnGetInto(tr.indexer, moved, buf),
        scratch_ndim |-> Len(ravelled)]

\* a transformation from two dimensions to three: (x, y) -> (x, y, x + y)
Lift == Affine(Matrix(<<1, 0, 0, 1, 1, 1>>, 2), <<0, 0, 0>>)

\* transformations that keep, lower and raise the number of dimensions
LookupTransforms ==
    { Identity(2), Translate(<<1, -1>>), MapAxis(<<1, 0>>), Narrow, Lift,
      Affine(Matrix(<<1, 1, 1>>, 3), <<0>>), Affine(Matrix(<<1, 0, 0, 0, 0, 1>>, 3), <<0, 0>>),
      build(<<Lift, MapAxis(<<2, 0, 1>>)>>).val }

\* arrays of one, two and three dimensions behind a default of -5
LookupArrays == {ConstNew(<<3>>, -5), ConstNew(<<2, 2>>, -5), ConstNew(<<2, 2, 3>>, -5)}

InitTransformed ==
    /\ GraphInit
    /\ NoBatch
    /\ \E transform \in LookupTransforms, indexer \in LookupArrays :
          subject = [made |-> TransformedTryNew(indexer, transform),
                     ndim |-> input_ndim(transform), coords |-> <<>>]
    /\ outcome = None

\* one more point of the input space joins the batch
PushLookup(coord) ==
    /\ outcome = None
    /\ subject.made.ok
    /\ Len(subject.coords) < MaxSamples
    /\ subject' = [subject EXCEPT !.coords = Append(@, coord)]
    /\ UNCHANGED <<outcome, gvars, tvars>>

TransformedBulkGet ==
    /\ outcome = None
    /\ subject.made.ok
    /\ subject.coords # <<>>
    /\ outcome' = Some(TransformedBulkGetInto(subject.made.val, subject.coords,
                                              Fill(Len(subject.coords), NAN)))
    /\ UNCHANGED <<subject, gvars, tvars>>

TransformedColumnGet ==
    /\ outcome = None
    /\ subject.made.ok
    /\ subject.coords # <<>>
    /\ outcome' = Some(TransformedColumnGetInto(subject.made.val,
                                                Transposed(subject.coords, subject.ndim),
                                                Fill(Len(subject.coords), NAN)))
    /\ UNCHANGED <<subject, gvars, tvars>>

NextTransformed ==
    \/ \E coord \in [1..subject.ndim -> 0..1] : PushLookup(coord)
    \/ TransformedBulkGet
    \/ TransformedColumnGet

SpecTransformed == InitTransformed /\ [][NextTransformed]_vars

\* C21: for every Transformed that try_new accepts, whether or not the
\* transformation changes the number of dimensions, bulk_get_into and
\* column_get_into return with buf[i] = get(point i) = inner.get(t(point i)), and
\* the scratch coordinates handed to the inner array have t.output_ndim dimensions
C21_LookupFormsAgree ==
    outcome.some =>
        /\ outcome.val.scratch_ndim = output_ndim(subject.made.val.transform)
        /\ outcome.val.ret =
              Done([i \in 1..Len(subject.coords) |->
                       TransformedGet(subject.made.val, subject.coords[i])])

\* ------------------------------------------------------------------------
\* The sampler's base coordinates (SpecGrid)
\* ------------------------------------------------------------------------

\* the most dimensions of a grid, and its largest extent
GridNdim == 3
MaxExtent == 4

\* extents.iter().product()
RECURSIVE Product(_)
Product(extents) == IF extents = <<>> THEN 1 ELSE Head(extents) * Product(Tail(extents))

\* Ravelled::chunks: the data cut into runs of chunk_size
RavelledChunks(r) ==
    [k \in 1..(Len(r.data) \div r.chunk_size) |->
        SubSeq(r.data, (k - 1) * r.chunk_size + 1, k * r.chunk_size)]

\* n copies of val
Repeat(n, val) == [k \in 1..n |-> val]

\* for elem in 0..ext { for _ in 0..repeat_each { data.push(elem) } }
RECURSIVE ColumnRun(_, _, _)
ColumnRun(ext, repeat_each, elem) ==
    IF elem >= ext THEN <<>>
    ELSE Repeat(repeat_each, elem) \o ColumnRun(ext, repeat_each, elem + 1)

\* for _ in 0..repeat_whole { ... }
RECURSIVE ColumnRuns(_, _, _)
ColumnRuns(repeat_whole, ext, repeat_each) ==
    IF repeat_whole = 0 THEN <<>>
    ELSE ColumnRun(ext, repeat_each, 0) \o ColumnRuns(repeat_whole - 1, ext, repeat_each)

\* the outer loop of column_base_coords (sampler.rs:92-114) from dimension dim_idx on
RECURSIVE ColumnData(_, _)
ColumnData(extents, dim_idx) ==
    IF dim_idx >= Len(extents) THEN <<>>
    ELSE LET repeat_whole == Product(SubSeq(extents, 1, dim_idx))
             repeat_each == Product(SubSeq(extents, dim_idx + 2, Len(extents)))
         IN ColumnRuns(repeat_whole, extents[dim_idx + 1], repeat_each)
            \o ColumnData(extents, dim_idx + 1)

\* column_base_coords
column_base_coords(extents) ==
    [data |-> ColumnData(extents, 0), chunk_size |-> Product(extents)]

\* a counter whose first dimension turns fastest
RECURSIVE AdvanceFirst(_, _, _)
AdvanceFirst(coord, extents, k) ==
    IF k = 0 THEN coord
    ELSE LET d == Len(coord) - k + 1
         IN IF coord[d] + 1 >= extents[d]
            THEN AdvanceFirst([coord EXCEPT ![d] = 0], extents, k - 1)
            ELSE [coord EXCEPT ![d] = coord[d] + 1]

\* the inner loop of row_base_coords (sampler.rs:127-135): dimensions k, k-1, .., 1
RECURSIVE Advance(_, _, _)
Advance(coord, extents, k) ==
    IF k = 0 THEN coord
    ELSE IF coord[k] + 1 >= extents[k]
         THEN Advance([coord EXCEPT ![k] = 0], extents, k - 1)
         ELSE [coord EXCEPT ![k] = coord[k] + 1]

\* for _ in 0..n_coords { data.extend_from_slice(&coord); ... }
RECURSIVE RowData(_, _, _)
RowData(extents, coord, left) ==
    IF left = 0 THEN <<>>
    ELSE coord \o RowData(extents, Advance(coord, extents, Len(coord)), left - 1)

\* row_base_coords
row_base_coords(extents) ==
    [data |-> RowData(extents, Fill(Len(extents), 0), Product(extents)),
     chunk_size |-> Len(extents)]

InitGrid ==
    /\ GraphInit
    /\ NoBatch
    /\ \E n \in 1..GridNdim : subject \in [1..n -> 1..MaxExtent]
    /\ outcome = None

\* Sampler::try_new's two layouts of the grid
BaseCoords ==
    /\ outcome = None
    /\ outcome' = Some([rows |-> RavelledChunks(row_base_coords(subject)),
                        columns |-> RavelledChunks(column_base_coords(subject))])
    /\ UNCHANGED <<subject, gvars, tvars>>

NextGrid == BaseCoords

SpecGrid == InitGrid /\ [][NextGrid]_vars

\* component d of the i-th coordinate (from 0) of the product in lexicographic order
LexComponent(shape, i, d) ==
    (i \div Product(SubSeq(shape, d + 1, Len(shape)))) % shape[d]

\* C22: row_base_coords(shape) lists every coordinate of the cartesian product of
\* 0..shape[d] exactly once in lexicographic order, the last dimension varying
\* fastest, and column_base_coords(shape) is its transpose
C22_BaseCoordsEnumerate ==
    outcome.some =>
        LET rows == outcome.val.rows
            columns == outcome.val.columns
        IN /\ Len(rows) = Product(subject)
           /\ \A i \in 1..Len(rows) :
                 rows[i] = [d \in 1..Len(subject) |-> LexComponent(subject, i - 1, d)]
           /\ \A i, j \in 1..Len(rows) : rows[i] = rows[j] => i = j
           /\ Len(columns) = Len(subject)
           /\ \A d \in 1..Len(columns) :
                 columns[d] = [i \in 1..Len(rows) |-> rows[i][d]]

\* the coordinates of a grid of three dimensions with different extents were listed
C22_Witness ==
    /\ outcome.some
    /\ Len(subject) = 3
    /\ subject[1] # subject[2]
    /\ subject[2] # subject[3]
    /\ subject[1] > 1
    /\ subject[3] > 1

\* ------------------------------------------------------------------------
\* ImageWrapper: an image as a bounded array (SpecImage)
\* ------------------------------------------------------------------------

\* the largest number of channels, rows and columns of an image
ImageExtent == 2

\* ImageWrapper::get_unchecked: get_pixel panics for a pixel outside the image,
\* and so does indexing channels() beyond the channel count
ImageGetUnchecked(extents, coord) ==
    IF coord[3] >= extents[3] \/ coord[2] >= extents[2] \/ coord[1] >= extents[1]
    THEN Panic
    ELSE Done(1 + Ravel(coord, extents, 0))

\* ImageWrapper::get: None, Some(value), or the panic of get_unchecked
ImageGet(extents, coord) ==
    IF \E d \in 1..Min(Len(coord), Len(extents)) : coord[d] > extents[d]
    THEN None
    ELSE LET v == ImageGetUnchecked(extents, coord)
         IN IF v = Panic THEN Panic ELSE Some(v.val)

\* an image of [channels, height, width] and a coordinate in or around it
InitImage ==
    /\ GraphInit
    /\ NoBatch
    /\ \E extents \in [1..3 -> 1..ImageExtent], coord \in [1..3 -> 0..(ImageExtent + 1)] :
          subject = [extents |-> extents, coord |-> coord]
    /\ outcome = None

GetPixel ==
    /\ outcome = None
    /\ outcome' = Some(ImageGet(subject.extents, subject.coord))
    /\ UNCHANGED <<subject, gvars, tvars>>

NextImage == GetPixel

SpecImage == InitImage /\ [][NextImage]_vars

\* C23: get(coord) returns None exactly when some coord[d] >= extents[d], and
\* returns Some(value) without failing for every coordinate within the extents
C23_NoneIffOutOfBounds ==
    outcome.some =>
        IF \E d \in 1..3 : subject.coord[d] >= subject.extents[d]
        THEN outcome.val = None
        ELSE outcome.val = Some(1 + Ravel(subject.coord, subject.extents, 0))


\* ------------------------------------------------------------------------
\* The path cache behind its read-write lock (graph.rs, PathCache)
\* ------------------------------------------------------------------------

\* edges of the graph whose path cache may be poisoned
MaxEdgesPoison == 2

\* PathCache::clear_poison: the flag of the lock afterwards
clear_poison(poisoned) == IF poisoned THEN FALSE ELSE poisoned

\* PathCache::get: the flag is cleared, then the stored entry is read and returned
PathCacheGet(cache, poisoned, src, tgt) ==
    [poisoned |-> clear_poison(poisoned), entry |-> CacheGet(cache, src, tgt)]

\* PathCache::insert: the flag is cleared, then the entry is written
PathCacheInsert(cache, poisoned, src, tgt, maybe_t) ==
    [poisoned |-> clear_poison(poisoned), cache |-> CacheInsert(cache, src, tgt, maybe_t)]

\* PathCache::clear_mut
PathCacheClearMut(cache, poisoned) ==
    [poisoned |-> clear_poison(poisoned), cache |-> CacheClear(cache)]

\* TransformGraph::find_path on a cache whose lock carries a poison flag:
\* [ret, cache, poisoned] afterwards, with whether the cache was consulted and
\* whether the call returned the entry it read
find_path_locked(g, cs, cache, poisoned, from, to) ==
    IF from \notin DOMAIN cs \/ from = to \/ to \notin DOMAIN cs
    THEN [ret |-> find_path(g, cs, cache, from, to).ret, cache |-> cache,
          poisoned |-> poisoned, consulted |-> FALSE, hit |-> FALSE]
    ELSE LET read == PathCacheGet(cache, poisoned, from, to)
         IN IF read.entry.some
            THEN [ret |-> read.entry.val, cache |-> cache, poisoned |-> read.poisoned,
                  consulted |-> TRUE, hit |-> TRUE]
            ELSE LET r == find_path(g, cs, cache, from, to)
                     w == PathCacheInsert(cache, read.poisoned, from, to, r.ret)
                 IN [ret |-> r.ret, cache |-> w.cache, poisoned |-> w.poisoned,
                     consulted |-> TRUE, hit |-> FALSE]

InitPoison ==
    /\ GraphInit /\ NoBatch
    /\ subject = [poisoned |-> FALSE]
    /\ outcome = None

\* add_edge clears the cache through clear_mut
AddEdgeLocked(src_s, tgt_s, transform, weight) ==
    LET r == add_edge(graph, coord_systems, path_cache, src_s, tgt_s, transform, weight, FALSE)
        c == PathCacheClearMut(path_cache, subject.poisoned)
    IN /\ graph' = r.graph
       /\ coord_systems' = r.coord_systems
       /\ path_cache' = c.cache
       /\ add_edge_ret' = r.ret
       /\ subject' = [poisoned |-> c.poisoned]
       /\ UNCHANGED <<inverse_added, outcome, tvars>>

\* a thread panics while it holds the write guard of the cache: the lock is
\* poisoned and the entries stay as they were
WriterPanics ==
    /\ ~subject.poisoned
    /\ subject' = [poisoned |-> TRUE]
    /\ UNCHANGED <<gvars, outcome, tvars>>

\* a find_path call, remembering the flag it met and the branch it took
FindPathLocked(from, to) ==
    LET r == find_path_locked(graph, coord_systems, path_cache, subject.poisoned, from, to)
    IN /\ Cardinality(DOMAIN r.cache) <= MaxCached
       /\ path_cache' = r.cache
       /\ subject' = [poisoned |-> r.poisoned]
       /\ outcome' = Some([was_poisoned |-> subject.poisoned, consulted |-> r.consulted,
                           hit |-> r.hit, poisoned |-> r.poisoned])
       /\ UNCHANGED <<graph, coord_systems, add_edge_ret, inverse_added, tvars>>

NextPoison ==
    \/ \E src_s, tgt_s \in Labels, transform \in RouteTransforms, weight \in Costs :
          /\ src_s # tgt_s
          /\ AddEdgeLocked(src_s, tgt_s, transform, weight)
          /\ NumEdges(graph') <= MaxEdgesPoison
    \/ WriterPanics
    \/ \E from, to \in Labels : FindPathLocked(from, to)

SpecPoison == InitPoison /\ [][NextPoison]_vars

\* C24: a find_path call that consults the cache while its lock is poisoned
\* reports a miss (it does not return the stored entry) and leaves the lock
\* unpoisoned
C24_PoisonedReadIsMiss ==
    (outcome.some /\ outcome.val.consulted /\ outcome.val.was_poisoned)
        => (~outcome.val.hit /\ ~outcome.val.poisoned)

\* ------------------------------------------------------------------------
\* Concurrent find_path calls on a graph that is no longer mutated
\* ------------------------------------------------------------------------

\* threads calling find_path, and edges of the graph they share
NumThreads == 2
MaxEdgesRace == 2

Threads == 1..NumThreads

\* a thread that has not called find_path yet
Idle == [pc |-> "idle", from |-> "a", to |-> "a", ret |-> None]

\* the graph is built first (add_edge needs exclusive access), then shared
InitRace ==
    /\ GraphInit /\ NoBatch
    /\ subject = [frozen |-> FALSE, threads |-> [t \in Threads |-> Idle]]
    /\ outcome = [overwrote |-> FALSE, changed |-> FALSE]

BuildEdge(src_s, tgt_s, transform, weight) ==
    /\ ~subject.frozen
    /\ AddEdge(src_s, tgt_s, transform, weight, FALSE)

\* the graph is handed to the threads by shared reference
Share ==
    /\ ~subject.frozen
    /\ subject' = [subject EXCEPT !.frozen = TRUE]
    /\ UNCHANGED <<gvars, outcome, tvars>>

\* find_path up to the point where the path is computed: the early returns,
\* the cache read under the read lock, and the search on the shared graph
RaceRead(t, from, to) ==
    LET r == find_path_locked(graph, coord_systems, path_cache, FALSE, from, to)
        finished == ~r.consulted \/ r.hit
    IN /\ subject.frozen
       /\ subject.threads[t].pc = "idle"
       /\ subject' = [subject EXCEPT !.threads[t] =
                        [pc |-> IF finished THEN "done" ELSE "computed",
                         from |-> from, to |-> to, ret |-> r.ret]]
       /\ UNCHANGED <<gvars, outcome, tvars>>

\* the insert under the write lock that ends a call that missed
RaceInsert(t) ==
    LET th == subject.threads[t]
        old == CacheGet(path_cache, th.from, th.to)
        w == PathCacheInsert(path_cache, FALSE, th.from, th.to, th.ret)
    IN /\ th.pc = "computed"
       /\ path_cache' = w.cache
       /\ subject' = [subject EXCEPT !.threads[t].pc = "done"]
       /\ outcome' = [overwrote |-> outcome.overwrote \/ old.some,
                      changed |-> outcome.changed
                                    \/ (old.some /\ w.cache[<<th.from, th.to>>] # old.val)]
       /\ UNCHANGED <<graph, coord_systems, add_edge_ret, inverse_added, tvars>>

NextRace ==
    \/ \E src_s, tgt_s \in Labels, transform \in RouteTransforms, weight \in Costs :
          /\ src_s # tgt_s
          /\ BuildEdge(src_s, tgt_s, transform, weight)
          /\ NumEdges(graph') <= MaxEdgesRace
    \/ Share
    \/ \E t \in Threads, from, to \in Labels : RaceRead(t, from, to)
    \/ \E t \in Threads : RaceInsert(t)

SpecRace == InitRace /\ [][NextRace]_vars

\* C25: on a shared graph every finished call holds what the same call returns
\* alone, every cache entry holds what a sequential find_path for its pair
\* computes, and no insert changes a value that was already stored
C25_RacingCallsAgree ==
    /\ \A t \in Threads :
          subject.threads[t].pc \in {"computed", "done"} =>
             subject.threads[t].ret =
                FindPathFresh(subject.threads[t].from, subject.threads[t].to)
    /\ \A p \in DOMAIN path_cache : path_cache[p] = FindPathFresh(p[1], p[2])
    /\ ~outcome.changed

\* both threads missed on the same pair, both inserted, and both have returned
\* a path that crosses an intermediate node
C25_Witness ==
    /\ outcome.overwrote
    /\ \A t \in Threads : subject.threads[t].pc = "done"
    /\ subject.threads[1].from = subject.threads[2].from
    /\ subject.threads[1].to = subject.threads[2].to
    /\ subject.threads[1].ret.some
    /\ subject.threads[1].ret.val.type = "Sequence"

\* ------------------------------------------------------------------------
\* Matrix::has_orthonormal_rows on its own
\* ------------------------------------------------------------------------

InitOrtho ==
    /\ GraphInit /\ NoBatch
    /\ subject \in RotationCandidates
    /\ outcome = None

HasOrthonormalRows ==
    /\ outcome = None
    /\ outcome' = Some(has_orthonormal_rows(subject))
    /\ UNCHANGED <<subject, gvars, tvars>>

NextOrtho == HasOrthonormalRows

SpecOrtho == InitOrtho /\ [][NextOrtho]_vars

\* C26: has_orthonormal_rows answers true exactly when every row has magnitude 1
\* (its squares sum to 1, neither more nor less) and every two distinct rows have
\* dot product 0
C26_OrthonormalIff ==
    outcome.some =>
       (outcome.val <=>
          /\ \A r \in 0..(subject.nrows - 1) : dot(MatRow(subject, r), MatRow(subject, r)) = 1
          /\ \A r, q \in 0..(subject.nrows - 1) :
                r # q => dot(MatRow(subject, r), MatRow(subject, q)) = 0)

\* ------------------------------------------------------------------------
\* add_edge calls that fail
\* ------------------------------------------------------------------------

MaxEdgesFail == 2

\* subject remembers the nodes and edges the last add_edge call started from
InitFail ==
    /\ GraphInit /\ NoBatch
    /\ subject = [graph |-> [p \in Pairs |-> <<>>], coord_systems |-> EmptyMap]
    /\ outcome = None

AddEdgeFrom(src_s, tgt_s, transform, weight, with_inverse) ==
    LET r == add_edge(graph, coord_systems, path_cache,
                      src_s, tgt_s, transform, weight, with_inverse)
    IN /\ graph' = r.graph
       /\ coord_systems' = r.coord_systems
       /\ path_cache' = r.path_cache
       /\ add_edge_ret' = r.ret
       /\ subject' = [graph |-> graph, coord_systems |-> coord_systems]
       /\ UNCHANGED <<inverse_added, outcome, tvars>>

NextFail ==
    \/ \E src_s, tgt_s \in Labels, transform \in DimTransforms, with_inverse \in BOOLEAN :
          /\ AddEdgeFrom(src_s, tgt_s, transform, DEFAULT_COST, with_inverse)
          /\ NumEdges(graph') <= MaxEdgesFail
    \/ \E from, to \in Labels : FindPath(from, to)

SpecFail == InitFail /\ [][NextFail]_vars

\* C27: after an add_edge call that returned an error the coordinate systems and
\* the edges are those the call started from, and find_path answers every pair
\* of labels as it did before the call
C27_FailedAddChangesNothing ==
    add_edge_ret = "err" =>
       /\ coord_systems = subject.coord_systems
       /\ graph = subject.graph
       /\ \A from, to \in Labels :
             FindPathRet(from, to) =
                find_path(subject.graph, subject.coord_systems, EmptyMap, from, to).ret

\* ------------------------------------------------------------------------
\* VecNdArray and its layouts (ndarr.rs)
\* ------------------------------------------------------------------------

NdNdim == 3
NdExtent == 2

\* .rev() of a slice
Reversed(s) == [i \in 1..Len(s) |-> s[Len(s) + 1 - i]]

\* the loop shared by both layouts, over the zipped (s, i) pairs from the k-th on:
\* None at the first i >= s, otherwise total += i * prev_s and prev_s = s
RECURSIVE LinearIdxLoop(_, _, _, _, _)
LinearIdxLoop(shape, index, k, total, prev_s) ==
    IF k > Min(Len(shape), Len(index)) THEN Some(total)
    ELSE IF index[k] >= shape[k] THEN None
    ELSE LinearIdxLoop(shape, index, k + 1, total + index[k] * prev_s, shape[k])

\* ColumnMajor::linear_idx
ColumnMajorLinearIdx(shape, index) == LinearIdxLoop(shape, index, 1, 0, 1)

\* RowMajor::linear_idx
RowMajorLinearIdx(shape, index) == LinearIdxLoop(Reversed(shape), Reversed(index), 1, 0, 1)

\* Layout::linear_idx of either layout
linear_idx(layout, shape, index) ==
    IF layout = "ColumnMajor" THEN ColumnMajorLinearIdx(shape, index)
    ELSE RowMajorLinearIdx(shape, index)

\* VecNdArray::get over data of numel elements: the position of data it reads
VecNdArrayGet(layout, shape, coord) ==
    LET idx == linear_idx(layout, shape, coord)
    IN IF ~idx.some THEN Done(None)
       ELSE IF idx.val >= Product(shape) THEN Panic
       ELSE Done(Some(idx.val))

\* an array of one to NdNdim dimensions and two coordinates of its dimensionality
InitNdArr ==
    /\ GraphInit /\ NoBatch
    /\ \E n \in 1..NdNdim :
          subject \in [layout : {"ColumnMajor", "RowMajor"},
                       shape : [1..n -> 1..NdExtent],
                       first : [1..n -> 0..NdExtent],
                       second : [1..n -> 0..NdExtent]]
    /\ outcome = None

GetTwice ==
    /\ outcome = None
    /\ outcome' = Some([first |-> VecNdArrayGet(subject.layout, subject.shape, subject.first),
                        second |-> VecNdArrayGet(subject.layout, subject.shape, subject.second)])
    /\ UNCHANGED <<subject, gvars, tvars>>

NextNdArr == GetTwice

SpecNdArr == InitNdArr /\ [][NextNdArr]_vars

\* coord lies inside shape
NdInBounds(shape, coord) == \A d \in 1..Len(shape) : coord[d] < shape[d]

\* C28: get reads nothing exactly for out-of-bounds coordinates, reads a position
\* below numel for in-bounds ones, and reads different positions for two
\* different in-bounds coordinates
C28_LinearIdxInjective ==
    outcome.some =>
       LET a == outcome.val.first
           b == outcome.val.second
           ina == NdInBounds(subject.shape, subject.first)
           inb == NdInBounds(subject.shape, subject.second)
       IN /\ a # Panic /\ b # Panic
          /\ a.val.some <=> ina
          /\ b.val.some <=> inb
          /\ (ina /\ inb /\ subject.first # subject.second) => a.val.val # b.val.val

\* ------------------------------------------------------------------------
\* ChunkedIndexer over a regular grid of chunks (idx_chunked.rs)
\* ------------------------------------------------------------------------

MaxLookups == 3

\* a grid of 2 x 2 chunks, each of 2 x 1 elements
ChunkShape == <<2, 1>>
NChunks == <<2, 2>>

\* RegularChunker::get_chunk_idx, the get_chunk_offset of the grid
get_chunk_offset(chunk_shape, n_chunks, coord) ==
    IF \E d \in 1..Len(coord) : coord[d] \div chunk_shape[d] >= n_chunks[d]
    THEN None
    ELSE Some([chunk_id |-> [d \in 1..Len(coord) |-> coord[d] \div chunk_shape[d]],
               offset_idx |-> [d \in 1..Len(coord) |-> coord[d] % chunk_shape[d]]])

\* ChunkedIndex::get_chunk: the chunk when it is stored
get_chunk(present, chunk_id) == IF chunk_id \in present THEN Some(chunk_id) ELSE None

\* BoundedIndex::get of a chunk whose element at an offset names chunk and offset
ChunkGet(chunk, offset) == Some(<<chunk, offset>>)

\* BoundedIndex::bulk_get_into of a chunk (the trait's default)
ChunkBulkGetInto(chunk, coords, buf) ==
    [i \in 1..Len(buf) |-> IF i <= Len(coords) THEN ChunkGet(chunk, coords[i]) ELSE buf[i]]

\* BoundedIndex::column_get_into of a chunk (the trait's default): buf[idx] for
\* every idx of the first column, out of range when buf is shorter
ChunkColumnGetInto(chunk, columns, buf) ==
    IF Len(columns[1]) > Len(buf) THEN Panic
    ELSE Done([i \in 1..Len(buf) |->
                  IF i <= Len(columns[1])
                  THEN ChunkGet(chunk, [d \in 1..Len(columns) |-> columns[d][i]])
                  ELSE buf[i]])

\* ChunkedIndexer::get
ChunkedGet(present, coord) ==
    LET co == get_chunk_offset(ChunkShape, NChunks, coord)
    IN IF ~co.some THEN None
       ELSE LET c == get_chunk(present, co.val.chunk_id)
            IN IF ~c.some THEN None ELSE ChunkGet(c.val, co.val.offset_idx)

\* the order of ShortVec keys in a BTreeMap
LexLess(a, b) ==
    \E k \in 1..Len(a) : a[k] < b[k] /\ \A j \in 1..(k - 1) : a[j] = b[j]

\* the keys of a BTreeMap in iteration order
Keys(S) ==
    CHOOSE s \in [1..Cardinality(S) -> S] :
        \A i, j \in 1..Cardinality(S) : i < j => LexLess(s[i], s[j])

\* the position of a key in the iteration order
KeyIndex(keys, key) == CHOOSE k \in 1..Len(keys) : keys[k] = key

\* the chunk ids that the first loop enters into the map
ChunkIds(co) == Keys({co[i].val.chunk_id : i \in {j \in 1..Len(co) : co[j].some}})

\* the offsets entered under one chunk id
Offsets(co, chunk_id) ==
    Keys({co[i].val.offset_idx :
             i \in {j \in 1..Len(co) : co[j].some /\ co[j].val.chunk_id = chunk_id}})

\* the first loop of both batch forms: None where there is no chunk offset
Unlocated(co, buf) == [i \in 1..Len(buf) |-> IF co[i].some THEN buf[i] ELSE None]

\* the write-back of one chunk: inner_b[k] goes to every entry under the k-th offset
WriteBack(co, chunk_id, keys, inner_b, buf) ==
    [i \in 1..Len(buf) |->
        IF co[i].some /\ co[i].val.chunk_id = chunk_id
        THEN inner_b[KeyIndex(keys, co[i].val.offset_idx)]
        ELSE buf[i]]

\* a chunk that is not stored: None to every entry under it
WriteMissing(co, chunk_id, buf) ==
    [i \in 1..Len(buf) |->
        IF co[i].some /\ co[i].val.chunk_id = chunk_id THEN None ELSE buf[i]]

\* ChunkedIndexer::bulk_get_into, the loop over the chunks from the k-th on
RECURSIVE BulkChunkLoop(_, _, _, _, _)
BulkChunkLoop(present, co, ids, k, buf) ==
    IF k > Len(ids) THEN buf
    ELSE LET chunk == get_chunk(present, ids[k])
         IN IF ~chunk.some
            THEN BulkChunkLoop(present, co, ids, k + 1, WriteMissing(co, ids[k], buf))
            ELSE LET keys == Offsets(co, ids[k])
                     inner_b == ChunkBulkGetInto(chunk.val, keys, Fill(Len(keys), None))
                 IN BulkChunkLoop(present, co, ids, k + 1,
                                  WriteBack(co, ids[k], keys, inner_b, buf))

\* ChunkedIndexer::bulk_get_into
ChunkedBulkGetInto(present, coords, buf) ==
    LET co == [i \in 1..Len(coords) |-> get_chunk_offset(ChunkShape, NChunks, coords[i])]
    IN Done(BulkChunkLoop(present, co, ChunkIds(co), 1, Unlocated(co, buf)))

\* ChunkedIndexer::column_get_into, the loop over the chunks from the k-th on;
\* inner_coords is created before the loop and every chunk pushes onto it
RECURSIVE ColumnChunkLoop(_, _, _, _, _, _)
ColumnChunkLoop(present, co, ids, k, inner_coords, buf) ==
    IF k > Len(ids) THEN Done(buf)
    ELSE LET chunk == get_chunk(present, ids[k])
         IN IF ~chunk.some
            THEN ColumnChunkLoop(present, co, ids, k + 1, inner_coords,
                                 WriteMissing(co, ids[k], buf))
            ELSE LET keys == Offsets(co, ids[k])
                     pushed == [d \in 1..Len(inner_coords) |->
                                   inner_coords[d] \o [j \in 1..Len(keys) |-> keys[j][d]]]
                     inner_b == ChunkColumnGetInto(chunk.val, pushed, Fill(Len(keys), None))
                 IN IF inner_b = Panic THEN Panic
                    ELSE ColumnChunkLoop(present, co, ids, k + 1, pushed,
                                         WriteBack(co, ids[k], keys, inner_b.val, buf))

\* ChunkedIndexer::column_get_into
ChunkedColumnGetInto(present, columns, buf) ==
    LET n_dim == Len(columns)
        n_coords == Len(columns[1])
        co == [i \in 1..Min(n_coords, Len(buf)) |->
                  get_chunk_offset(ChunkShape, NChunks, [d \in 1..n_dim |-> columns[d][i]])]
    IN ColumnChunkLoop(present, co, ChunkIds(co), 1, Fill(n_dim, <<>>), Unlocated(co, buf))

\* every chunk of the grid
AllChunks == {<<i, j>> : i \in 0..(NChunks[1] - 1), j \in 0..(NChunks[2] - 1)}

\* coordinates inside the grid and one step past it in either dimension
ChunkedCoords ==
    {<<x, y>> : x \in 0..(ChunkShape[1] * NChunks[1]), y \in 0..(ChunkShape[2] * NChunks[2])}

\* an entry of the caller's buffer before the call
Stale == Some(<<>>)

\* the grid with every chunk stored, or with the chunk (1, 0) not stored
InitChunked ==
    /\ GraphInit /\ NoBatch
    /\ \E present \in {AllChunks, AllChunks \ {<<1, 0>>}} :
          subject = [present |-> present, coords |-> <<>>]
    /\ outcome = None

PushLookupCoord(coord) ==
    /\ outcome = None
    /\ Len(subject.coords) < MaxLookups
    /\ subject' = [subject EXCEPT !.coords = Append(@, coord)]
    /\ UNCHANGED <<outcome, gvars, tvars>>

ChunkedBulkGet ==
    /\ outcome = None
    /\ subject.coords # <<>>
    /\ outcome' = Some(ChunkedBulkGetInto(subject.present, subject.coords,
                                          Fill(Len(subject.coords), Stale)))
    /\ UNCHANGED <<subject, gvars, tvars>>

ChunkedColumnGet ==
    /\ outcome = None
    /\ subject.coords # <<>>
    /\ outcome' = Some(ChunkedColumnGetInto(subject.present, Transposed(subject.coords, 2),
                                            Fill(Len(subject.coords), Stale)))
    /\ UNCHANGED <<subject, gvars, tvars>>

NextChunked ==
    \/ \E coord \in ChunkedCoords : PushLookupCoord(coord)
    \/ ChunkedBulkGet
    \/ ChunkedColumnGet

SpecChunked == InitChunked /\ [][NextChunked]_vars

\* C29: bulk_get_into and column_get_into leave in buf[i] what get gives for
\* coordinate i, whatever chunks the coordinates fall in and however often a
\* coordinate is repeated
C29_ChunkedBatchEqualsGet ==
    outcome.some =>
       outcome.val =
          Done([i \in 1..Len(subject.coords) |->
                   ChunkedGet(subject.present, subject.coords[i])])

\* ------------------------------------------------------------------------
\* The default batch forms of RealIndex and ValueProvider
\* ------------------------------------------------------------------------

MaxReads == 3

\* get of an implementor that relies on the defaults: a value that tells the
\* coordinates of the samples apart
ReadGet(coord) == 10 * coord[1] + coord[2]

\* RealIndex::bulk_get_into (default)
RealIndexBulkGetInto(coords, buf) ==
    Done([i \in 1..Len(buf) |-> IF i <= Len(coords) THEN ReadGet(coords[i]) ELSE buf[i]])

\* the loop of the default column form from sample idx on: buf[0] is assigned
\* get(coord) at every sample
RECURSIVE FirstSlotLoop(_, _, _)
FirstSlotLoop(columns, idx, buf) ==
    IF idx > Len(columns[1]) THEN Done(buf)
    ELSE IF buf = <<>> THEN Panic
    ELSE FirstSlotLoop(columns, idx + 1,
            [buf EXCEPT ![1] = ReadGet([d \in 1..Len(columns) |-> columns[d][idx]])])

\* RealIndex::column_get_into (default)
RealIndexColumnGetInto(columns, buf) == FirstSlotLoop(columns, 1, buf)

\* ValueProvider::bulk_get_into (default)
ValueProviderBulkGetInto(coords, buf) ==
    Done([i \in 1..Len(buf) |-> IF i <= Len(coords) THEN ReadGet(coords[i]) ELSE buf[i]])

\* ValueProvider::column_get_into (default)
ValueProviderColumnGetInto(columns, buf) == FirstSlotLoop(columns, 1, buf)

ReadCoords == {<<x, y>> : x, y \in 0..1}

InitReads ==
    /\ GraphInit /\ NoBatch
    /\ \E trait \in {"RealIndex", "ValueProvider"} :
          subject = [trait |-> trait, coords |-> <<>>]
    /\ outcome = None

PushRead(coord) ==
    /\ outcome = None
    /\ Len(subject.coords) < MaxReads
    /\ subject' = [subject EXCEPT !.coords = Append(@, coord)]
    /\ UNCHANGED <<outcome, gvars, tvars>>

\* bulk_get_into(coords, buf) on a buffer of stale values
DefaultBulkGet ==
    /\ outcome = None
    /\ subject.coords # <<>>
    /\ outcome' =
         Some(IF subject.trait = "RealIndex"
              THEN RealIndexBulkGetInto(subject.coords, Fill(Len(subject.coords), NAN))
              ELSE ValueProviderBulkGetInto(subject.coords, Fill(Len(subject.coords), NAN)))
    /\ UNCHANGED <<subject, gvars, tvars>>

\* column_get_into(columns, buf) on the same samples as columns
DefaultColumnGet ==
    /\ outcome = None
    /\ subject.coords # <<>>
    /\ outcome' =
         Some(IF subject.trait = "RealIndex"
              THEN RealIndexColumnGetInto(Transposed(subject.coords, 2),
                                          Fill(Len(subject.coords), NAN))
              ELSE ValueProviderColumnGetInto(Transposed(subject.coords, 2),
                                              Fill(Len(subject.coords), NAN)))
    /\ UNCHANGED <<subject, gvars, tvars>>

NextReads ==
    \/ \E coord \in ReadCoords : PushRead(coord)
    \/ DefaultBulkGet
    \/ DefaultColumnGet

SpecReads == InitReads /\ [][NextReads]_vars

\* C30: the default batch forms of both traits leave get(coordinate i) in buf[i]
\* for every sample i, the column form as the bulk form does
C30_DefaultColumnsFillBuf ==
    outcome.some =>
       outcome.val = Done([i \in 1..Len(subject.coords) |-> ReadGet(subject.coords[i])])
====
